---- MODULE Spec2Model ----
(***************************************************************************)
(* Model of the match-logic crate of prisoners-arena: the seeded          *)
(* generator (random.rs), the built-in strategies (strategy.rs), the      *)
(* bytecode interpreter (vm.rs), the pairing generator (pairing.rs) and   *)
(* the match loop (game.rs).                                               *)
(***************************************************************************)
EXTENDS Integers, Sequences, FiniteSets, TLC

(***************************************************************************)
(* 64-bit unsigned values.  A u64 is kept as its eight little-endian       *)
(* bytes (index 1 is the least significant byte), so that every wrapping   *)
(* operation of the source is computed modulo 2^64 without leaving         *)
(* TLC's integer range.                                                    *)
(***************************************************************************)
U64Zero == <<0, 0, 0, 0, 0, 0, 0, 0>>

\* a function over 1..n as the tuple of its values (each element is
\* evaluated once)
Tup(f) == f \o <<>>

\* F(e), with e computed once and before F is entered (the source computes
\* its values in program order)
Bind(e, F(_)) == CHOOSE r \in {F(v) : v \in {e}} : TRUE

\* e, with the values vs computed first and in order
Strict(vs, e) == IF vs = vs THEN e ELSE e

\* `x as u64` for a u32/u8/usize value x below 2^31
U64FromInt(n) ==
    <<n % 256, (n \div 256) % 256, (n \div 65536) % 256,
      (n \div 16777216) % 256, 0, 0, 0, 0>>

\* the 64 bits of a u64, index 1 is bit 0
U64ToBits(x) ==
    Tup([i \in 1..64 |-> (x[((i - 1) \div 8) + 1] \div (2 ^ ((i - 1) % 8))) % 2])

U64FromBits(b) ==
    Tup([j \in 1..8 |->
        b[8 * j - 7] + 2 * b[8 * j - 6] + 4 * b[8 * j - 5] + 8 * b[8 * j - 4]
        + 16 * b[8 * j - 3] + 32 * b[8 * j - 2] + 64 * b[8 * j - 1]
        + 128 * b[8 * j]])

\* a ^ b
U64Xor(x, y) ==
    LET bx == U64ToBits(x)
        by == U64ToBits(y)
    IN  U64FromBits(Tup([i \in 1..64 |-> (bx[i] + by[i]) % 2]))

\* carry propagation over eight byte columns, dropping the carry out of
\* byte 7 (wrapping arithmetic)
U64Carry(c) ==
    LET v1 == c[1]
        v2 == c[2] + v1 \div 256
        v3 == c[3] + v2 \div 256
        v4 == c[4] + v3 \div 256
        v5 == c[5] + v4 \div 256
        v6 == c[6] + v5 \div 256
        v7 == c[7] + v6 \div 256
        v8 == c[8] + v7 \div 256
    IN  <<v1 % 256, v2 % 256, v3 % 256, v4 % 256,
          v5 % 256, v6 % 256, v7 % 256, v8 % 256>>

\* a.wrapping_add(b)
U64WrappingAdd(x, y) ==
    U64Carry(<<x[1] + y[1], x[2] + y[2], x[3] + y[3], x[4] + y[4],
               x[5] + y[5], x[6] + y[6], x[7] + y[7], x[8] + y[8]>>)

\* a.wrapping_mul(b): the byte columns of the schoolbook product, below 2^64
U64WrappingMul(x, y) ==
    U64Carry(<<
        x[1] * y[1],
        x[1] * y[2] + x[2] * y[1],
        x[1] * y[3] + x[2] * y[2] + x[3] * y[1],
        x[1] * y[4] + x[2] * y[3] + x[3] * y[2] + x[4] * y[1],
        x[1] * y[5] + x[2] * y[4] + x[3] * y[3] + x[4] * y[2] + x[5] * y[1],
        x[1] * y[6] + x[2] * y[5] + x[3] * y[4] + x[4] * y[3] + x[5] * y[2]
            + x[6] * y[1],
        x[1] * y[7] + x[2] * y[6] + x[3] * y[5] + x[4] * y[4] + x[5] * y[3]
            + x[6] * y[2] + x[7] * y[1],
        x[1] * y[8] + x[2] * y[7] + x[3] * y[6] + x[4] * y[5] + x[5] * y[4]
            + x[6] * y[3] + x[7] * y[2] + x[8] * y[1]>>)

\* a >= b
U64Geq(x, y) ==
    LET differ == {i \in 1..8 : x[i] # y[i]}
    IN  \/ differ = {}
        \/ LET top == CHOOSE i \in differ : \A j \in differ : j <= i
           IN  x[top] > y[top]

\* a - b, for a >= b
U64Sub(x, y) ==
    U64Carry(<<x[1] + 256 - y[1], x[2] + 255 - y[2], x[3] + 255 - y[3],
               x[4] + 255 - y[4], x[5] + 255 - y[5], x[6] + 255 - y[6],
               x[7] + 255 - y[7], x[8] + 255 - y[8]>>)

\* (a << 1) | bit
U64Shl1Or(x, bit) ==
    U64Carry(<<2 * x[1] + bit, 2 * x[2], 2 * x[3], 2 * x[4],
               2 * x[5], 2 * x[6], 2 * x[7], 2 * x[8]>>)

\* a >> 1
U64Shr1(x) ==
    LET b == U64ToBits(x)
    IN  U64FromBits(Tup([i \in 1..64 |-> IF i < 64 THEN b[i + 1] ELSE 0]))

\* one bit of the binary long division by d > 0: acc holds the remainder
\* and the quotient bits found so far
U64DivStep(bit, d, acc) ==
    LET r == U64Shl1Or(acc.rem, bit)
        fits == U64Geq(r, d)
    IN  [rem |-> IF fits THEN U64Sub(r, d) ELSE r,
         q |-> U64Shl1Or(acc.q, IF fits THEN 1 ELSE 0)]

\* the eight bits of one byte, from its bit 7 down
U64DivByte(byte, d, acc) ==
    Bind(U64DivStep((byte \div 128) % 2, d, acc), LAMBDA a7 :
    Bind(U64DivStep((byte \div 64) % 2, d, a7), LAMBDA a6 :
    Bind(U64DivStep((byte \div 32) % 2, d, a6), LAMBDA a5 :
    Bind(U64DivStep((byte \div 16) % 2, d, a5), LAMBDA a4 :
    Bind(U64DivStep((byte \div 8) % 2, d, a4), LAMBDA a3 :
    Bind(U64DivStep((byte \div 4) % 2, d, a3), LAMBDA a2 :
    Bind(U64DivStep((byte \div 2) % 2, d, a2), LAMBDA a1 :
        U64DivStep(byte % 2, d, a1))))))))

\* a / d for d > 0, from byte 7 down
U64Div(x, d) ==
    Bind(U64DivByte(x[8], d, [rem |-> U64Zero, q |-> U64Zero]), LAMBDA b8 :
    Bind(U64DivByte(x[7], d, b8), LAMBDA b7 :
    Bind(U64DivByte(x[6], d, b7), LAMBDA b6 :
    Bind(U64DivByte(x[5], d, b6), LAMBDA b5 :
    Bind(U64DivByte(x[4], d, b5), LAMBDA b4 :
    Bind(U64DivByte(x[3], d, b4), LAMBDA b3 :
    Bind(U64DivByte(x[2], d, b3), LAMBDA b2 :
        U64DivByte(x[1], d, b2).q)))))))

\* `x as u32`, kept as an integer: for a u64 below 2^31
U64ToInt(x) == x[1] + 256 * x[2] + 65536 * x[3] + 16777216 * x[4]

\* (x >> 32) as the low half of a u64
U64Shr32(x) == <<x[5], x[6], x[7], x[8], 0, 0, 0, 0>>

\* ((x >> 32) as u32) % m, for 0 < m < 2^23
U64High32Mod(x, m) ==
    (((((((x[8] % m) * 256) + x[7]) % m) * 256 + x[6]) % m) * 256 + x[5]) % m

\* ((x >> 16) as u32) % m, for 0 < m < 2^23
U64Mid32Mod(x, m) ==
    (((((((x[6] % m) * 256) + x[5]) % m) * 256 + x[4]) % m) * 256 + x[3]) % m

(***************************************************************************)
(* SeededRng (random.rs)                                                   *)
(***************************************************************************)
\* 0x517cc1b727220a95
MatchIndexMult == <<149, 10, 34, 39, 183, 193, 124, 81>>
\* 0x9e3779b97f4a7c15
RoundMult == <<21, 124, 74, 127, 185, 121, 55, 158>>
\* 0x2545f4914f6cdd1d
OutputMult == <<29, 221, 108, 79, 145, 244, 69, 37>>
\* u32::MAX as u64
U32Max == <<255, 255, 255, 255, 0, 0, 0, 0>>

\* the state update of next_u64 (xorshift64)
xorshift64(state) ==
    LET b0 == U64ToBits(state)
        b1 == Tup([i \in 1..64 |-> (b0[i] + (IF i + 12 <= 64 THEN b0[i + 12] ELSE 0)) % 2])
        b2 == Tup([i \in 1..64 |-> (b1[i] + (IF i - 25 >= 1 THEN b1[i - 25] ELSE 0)) % 2])
        b3 == Tup([i \in 1..64 |-> (b2[i] + (IF i + 27 <= 64 THEN b2[i + 27] ELSE 0)) % 2])
    IN  Strict(<<b0, b1, b2, b3>>, U64FromBits(b3))

\* next_u64: the generator after the call and the value returned
next_u64(state) ==
    LET s == xorshift64(state)
    IN  [state |-> s, value |-> U64WrappingMul(s, OutputMult)]

\* `for _ in 0..8 { rng.next_u64(); }`
RngWarmUp(state) ==
    LET s1 == xorshift64(state)
        s2 == xorshift64(s1)
        s3 == xorshift64(s2)
        s4 == xorshift64(s3)
        s5 == xorshift64(s4)
        s6 == xorshift64(s5)
        s7 == xorshift64(s6)
        s8 == xorshift64(s7)
    IN  Strict(<<s1, s2, s3, s4, s5, s6, s7>>, s8)

\* u64::from_le_bytes of the i-th 8-byte chunk of the seed, plus i
SeedChunk(seed, i) ==
    U64WrappingAdd(<<seed[8 * i + 1], seed[8 * i + 2], seed[8 * i + 3],
                     seed[8 * i + 4], seed[8 * i + 5], seed[8 * i + 6],
                     seed[8 * i + 7], seed[8 * i + 8]>>,
                   U64FromInt(i))

\* the fold of the four 8-byte chunks of the seed
SeedFold(seed) ==
    LET s0 == U64Xor(U64Zero, SeedChunk(seed, 0))
        s1 == U64Xor(s0, SeedChunk(seed, 1))
        s2 == U64Xor(s1, SeedChunk(seed, 2))
        s3 == U64Xor(s2, SeedChunk(seed, 3))
    IN  Strict(<<s0, s1, s2>>, s3)

\* SeededRng::new(seed, match_index), match_index given as a u64
SeededRng_new(seed, match_index) ==
    LET folded == SeedFold(seed)
        mixed  == U64Xor(folded, U64WrappingMul(match_index, MatchIndexMult))
    IN  Strict(<<folded, mixed>>, RngWarmUp(mixed))

\* for_round mixing in half the round index
for_round_halved(state, round) ==
    xorshift64(U64Xor(state, U64WrappingMul(U64FromInt(round \div 2), RoundMult)))

\* SeededRng::for_round(round)
for_round(state, round) ==
    xorshift64(U64Xor(state, U64WrappingMul(U64FromInt(round), RoundMult)))

\* next_percent: the generator after the call and the value returned
next_percent(state) ==
    LET r == next_u64(state)
    IN  [state |-> r.state, value |-> U64High32Mod(r.value, 100)]

\* next_range(max)
next_range(state, max) ==
    IF max = 0 THEN [state |-> state, value |-> 0]
    ELSE LET r == next_u64(state)
         IN  [state |-> r.state, value |-> U64High32Mod(r.value, max)]

(***************************************************************************)
(* Moves, the payoff matrix (lib.rs) and the built-in strategies           *)
(* (strategy.rs).  A history is a sequence of moves, oldest first.  A call *)
(* that aborts (a panic) is the outcome "Panic".                           *)
(***************************************************************************)
Cooperate == "Cooperate"
Defect == "Defect"
Panic == "Panic"
Move == {Cooperate, Defect}

\* the sucker's payoff and the temptation exchanged
payoff_exchanged(a, b) ==
    CASE a = Cooperate /\ b = Cooperate -> <<3, 3>>
      [] a = Cooperate /\ b = Defect    -> <<5, 0>>
      [] a = Defect    /\ b = Cooperate -> <<0, 5>>
      [] a = Defect    /\ b = Defect    -> <<1, 1>>

\* payoff(a, b) = (score_a, score_b)
payoff(a, b) ==
    CASE a = Cooperate /\ b = Cooperate -> <<3, 3>>
      [] a = Cooperate /\ b = Defect    -> <<0, 5>>
      [] a = Defect    /\ b = Cooperate -> <<5, 0>>
      [] a = Defect    /\ b = Defect    -> <<1, 1>>

StrategyBase ==
    {"TitForTat", "AlwaysDefect", "AlwaysCooperate", "GrimTrigger", "Pavlov",
     "SuspiciousTitForTat", "Random", "TitForTwoTats", "Gradual"}

\* StrategyParams::default()
StrategyParams_default ==
    [forgiveness |-> 0, retaliation_delay |-> 0, noise_tolerance |-> 0,
     initial_moves |-> 0, cooperate_bias |-> 50]

\* Strategy::new(base)
Strategy_new(base) == [base |-> base, params |-> StrategyParams_default]

\* history.iter().filter(|m| **m == Move::Defect).count()
DefectCount(history) ==
    Cardinality({i \in 1..Len(history) : history[i] = Defect})

\* opponent_history.iter().rposition(|m| *m == Move::Defect), 0-based, -1 for None
LastDefectPos(history) ==
    LET at == {i \in 1..Len(history) : history[i] = Defect}
    IN  IF at = {} THEN -1
        ELSE (CHOOSE i \in at : \A j \in at : j <= i) - 1

\* the Some(Move::Defect) arm shared by execute_tit_for_tat and
\* execute_suspicious_tit_for_tat: retaliation delay, then forgiveness
RetaliateOrForgive(opponent_history, params, rng) ==
    LET pos == LastDefectPos(opponent_history)
        rounds_since == Len(opponent_history) - 1 - pos
    IN  IF params.retaliation_delay > 0 /\ pos >= 0
            /\ rounds_since < params.retaliation_delay
        THEN [move |-> Cooperate, rng |-> rng]
        ELSE IF params.forgiveness > 0
             THEN LET r == next_percent(rng)
                  IN  [move |-> IF r.value < params.forgiveness
                                THEN Cooperate ELSE Defect,
                       rng |-> r.state]
             ELSE [move |-> Defect, rng |-> rng]

\* Tit-for-Tat that starts with Defect
execute_tit_for_tat_suspicious(opponent_history, params, rng) ==
    IF opponent_history = <<>> THEN [move |-> Defect, rng |-> rng]
    ELSE IF opponent_history[Len(opponent_history)] = Cooperate
         THEN [move |-> Cooperate, rng |-> rng]
         ELSE RetaliateOrForgive(opponent_history, params, rng)

execute_tit_for_tat(opponent_history, params, rng) ==
    IF opponent_history = <<>> THEN [move |-> Cooperate, rng |-> rng]
    ELSE IF opponent_history[Len(opponent_history)] = Cooperate
         THEN [move |-> Cooperate, rng |-> rng]
         ELSE RetaliateOrForgive(opponent_history, params, rng)

\* a trigger that looks at the opponent's last move only
execute_grim_trigger_last_move(opponent_history, params) ==
    IF opponent_history # <<>> /\ opponent_history[Len(opponent_history)] = Defect
    THEN Defect ELSE Cooperate

execute_grim_trigger(opponent_history, params) ==
    IF DefectCount(opponent_history) > params.noise_tolerance
    THEN Defect ELSE Cooperate

\* Pavlov that stays only on a score above 3
execute_pavlov_above_3(opponent_history, my_history) ==
    IF my_history = <<>> THEN Cooperate
    ELSE IF opponent_history = <<>> THEN Panic
    ELSE LET my_last  == my_history[Len(my_history)]
             opp_last == opponent_history[Len(opponent_history)]
             my_score == payoff(my_last, opp_last)[1]
         IN  IF my_score > 3 THEN my_last
             ELSE IF my_last = Cooperate THEN Defect ELSE Cooperate

\* my_history.last().unwrap() is guarded by is_empty();
\* opponent_history.last().unwrap() is not
execute_pavlov(opponent_history, my_history) ==
    IF my_history = <<>> THEN Cooperate
    ELSE IF opponent_history = <<>> THEN Panic
    ELSE LET my_last  == my_history[Len(my_history)]
             opp_last == opponent_history[Len(opponent_history)]
             my_score == payoff(my_last, opp_last)[1]
         IN  IF my_score >= 3 THEN my_last
             ELSE IF my_last = Cooperate THEN Defect ELSE Cooperate

execute_suspicious_tit_for_tat(opponent_history, params, rng) ==
    IF opponent_history = <<>> THEN [move |-> Defect, rng |-> rng]
    ELSE IF opponent_history[Len(opponent_history)] = Cooperate
         THEN [move |-> Cooperate, rng |-> rng]
         ELSE RetaliateOrForgive(opponent_history, params, rng)

execute_random(params, rng) ==
    LET r == next_percent(rng)
    IN  [move |-> IF r.value < params.cooperate_bias THEN Cooperate ELSE Defect,
         rng |-> r.state]

execute_tit_for_two_tats(opponent_history) ==
    IF Len(opponent_history) < 2 THEN Cooperate
    ELSE IF opponent_history[Len(opponent_history) - 1] = Defect
            /\ opponent_history[Len(opponent_history)] = Defect
         THEN Defect ELSE Cooperate

\* Gradual that also defects when its defections equal the target
execute_gradual_at_target(opponent_history, my_history) ==
    LET their_defections == DefectCount(opponent_history)
        my_defections    == DefectCount(my_history)
        expected         == (their_defections * (their_defections + 1)) \div 2
    IN  IF my_defections <= expected THEN Defect ELSE Cooperate

execute_gradual(opponent_history, my_history) ==
    LET their_defections == DefectCount(opponent_history)
        my_defections    == DefectCount(my_history)
        expected         == (their_defections * (their_defections + 1)) \div 2
    IN  IF my_defections < expected THEN Defect ELSE Cooperate

\* execute_strategy: the move and the generator after the call
execute_strategy(strategy, opponent_history, my_history, round, rng) ==
    IF round < 8 /\ (strategy.params.initial_moves \div (2 ^ round)) % 2 = 1
    THEN [move |-> Defect, rng |-> rng]
    ELSE CASE strategy.base = "TitForTat" ->
                execute_tit_for_tat(opponent_history, strategy.params, rng)
           [] strategy.base = "AlwaysDefect" -> [move |-> Defect, rng |-> rng]
           [] strategy.base = "AlwaysCooperate" -> [move |-> Cooperate, rng |-> rng]
           [] strategy.base = "GrimTrigger" ->
                [move |-> execute_grim_trigger(opponent_history, strategy.params),
                 rng |-> rng]
           [] strategy.base = "Pavlov" ->
                [move |-> execute_pavlov(opponent_history, my_history), rng |-> rng]
           [] strategy.base = "SuspiciousTitForTat" ->
                execute_suspicious_tit_for_tat(opponent_history, strategy.params, rng)
           [] strategy.base = "Random" -> execute_random(strategy.params, rng)
           [] strategy.base = "TitForTwoTats" ->
                [move |-> execute_tit_for_two_tats(opponent_history), rng |-> rng]
           [] strategy.base = "Gradual" ->
                [move |-> execute_gradual(opponent_history, my_history), rng |-> rng]

(***************************************************************************)
(* Bytecode interpreter (vm.rs).  A program is a sequence of bytes; the    *)
(* source's 0-based offset pc is the element pc + 1 of the sequence.       *)
(***************************************************************************)
MAX_BYTECODE_LEN == 64
MAX_FUEL == 128
STACK_SIZE == 8

COOP == 0
PUSH == 1
OPP_LAST == 2
MY_LAST == 3
OPP_N == 4
MY_N == 5
OPP_DEFECTS == 6
MY_DEFECTS == 7
ROUND == 8
RAND == 9
ADD == 10
SUB == 11
MUL == 12
GT == 13
LT == 14
EQ == 15
NOT == 16
AND == 17
OR == 18
DUP == 19
JMP_FWD == 20
JMP_FWD_IF == 21
DEFECT == 22
SCORE_LAST == 23
RETURN == 24

\* BytecodeError values and Ok(()); offset and opcode are -1 where the
\* variant has no such field
VOk == [kind |-> "Ok", offset |-> -1, opcode |-> -1]
VErr(kind, offset, opcode) == [kind |-> kind, offset |-> offset, opcode |-> opcode]

\* The scan of validate_bytecode: pc, has_terminal and res, the value
\* returned: VScanning while the loop runs.
VScanning == [kind |-> "Scanning", offset |-> -1, opcode |-> -1]
ScanStart == [pc |-> 0, has_terminal |-> FALSE, res |-> VScanning]

\* a jump to the end of the program refused as well
target_at_or_past_end(target, len) == target >= len

\* `if target > bytecode.len()`
target_past_end(target, len) == target > len

\* one pass of the while loop of validate_bytecode (the loop test, then the
\* opcode), and the test after the loop
validate_step(bytecode, sc) ==
    IF sc.pc >= Len(bytecode)
    THEN [sc EXCEPT !.res = IF sc.has_terminal THEN VOk
                             ELSE VErr("NoTerminal", -1, -1)]
    ELSE LET pc == sc.pc
             opcode == bytecode[pc + 1]
         IN  CASE opcode \in {COOP, DEFECT, RETURN} ->
                    [sc EXCEPT !.has_terminal = TRUE, !.pc = pc + 1]
               [] opcode = PUSH ->
                    IF pc + 1 >= Len(bytecode)
                    THEN [sc EXCEPT !.res = VErr("TruncatedImmediate", pc, -1)]
                    ELSE [sc EXCEPT !.pc = pc + 2]
               [] opcode \in {JMP_FWD, JMP_FWD_IF} ->
                    IF pc + 1 >= Len(bytecode)
                    THEN [sc EXCEPT !.res = VErr("TruncatedImmediate", pc, -1)]
                    ELSE IF target_past_end(pc + 2 + bytecode[pc + 2], Len(bytecode))
                         THEN [sc EXCEPT !.res = VErr("JumpOutOfBounds", pc, -1)]
                         ELSE [sc EXCEPT !.pc = pc + 2]
               [] opcode \in {OPP_LAST, MY_LAST, OPP_N, MY_N, OPP_DEFECTS,
                              MY_DEFECTS, ROUND, RAND, ADD, SUB, MUL, GT, LT,
                              EQ, NOT, AND, OR, DUP, SCORE_LAST} ->
                    [sc EXCEPT !.pc = pc + 1]
               [] OTHER -> [sc EXCEPT !.res = VErr("UnknownOpcode", pc, opcode)]

\* validate_bytecode without its two length checks
validate_start_unchecked(bytecode) == ScanStart

\* the two length checks that precede the scan
validate_start(bytecode) ==
    IF Len(bytecode) = 0 THEN [ScanStart EXCEPT !.res = VErr("Empty", -1, -1)]
    ELSE IF Len(bytecode) > MAX_BYTECODE_LEN
         THEN [ScanStart EXCEPT !.res = VErr("TooLong", -1, -1)]
         ELSE ScanStart

RECURSIVE validate_run(_, _)
validate_run(bytecode, sc) ==
    IF sc.res # VScanning THEN sc
    ELSE Bind(validate_step(bytecode, sc),
              LAMBDA next : validate_run(bytecode, next))

validate_bytecode(bytecode) == validate_run(bytecode, validate_start(bytecode)).res

\* push: Option<()> as the field ok
push(stack, sp, val) ==
    IF sp >= STACK_SIZE
    THEN [ok |-> FALSE, stack |-> stack, sp |-> sp]
    ELSE [ok |-> TRUE, stack |-> [stack EXCEPT ![sp + 1] = val], sp |-> sp + 1]

\* pop: Option<u8> as the fields ok and val; the slot keeps its value
pop(stack, sp) ==
    IF sp = 0
    THEN [ok |-> FALSE, sp |-> sp, val |-> 0]
    ELSE [ok |-> TRUE, sp |-> sp - 1, val |-> stack[sp]]

\* move_to_u8(history.last())
move_to_u8(history) ==
    IF history # <<>> /\ history[Len(history)] = Defect THEN 1 ELSE 0

history_n_ago(history, n) ==
    IF n >= Len(history) THEN 0
    ELSE IF history[Len(history) - n] = Defect THEN 1 ELSE 0

count_defects(history) ==
    LET count == DefectCount(history)
    IN  IF count < 255 THEN count ELSE 255

saturating_add(a, b) == IF a + b > 255 THEN 255 ELSE a + b
saturating_sub(a, b) == IF a - b < 0 THEN 0 ELSE a - b
saturating_mul(a, b) == IF a * b > 255 THEN 255 ELSE a * b
u8_from(cond) == IF cond THEN 1 ELSE 0

\* The interpreter's local state: the stack, sp, pc, fuel, the caller's
\* generator, and ret, the value execute_inner returns: "Running" while
\* the loop runs, "None", or Some(move) as the move.
VmStart(rng) ==
    [stack |-> <<0, 0, 0, 0, 0, 0, 0, 0>>, sp |-> 0, pc |-> 0, fuel |-> 0,
     rng |-> rng, ret |-> "Running"]

\* the offset counted from the opcode of the jump
jump_target_from_opcode(pc, offset) == pc + offset

\* `pc = pc + 2 + offset` of JMP_FWD and JMP_FWD_IF (usize; offset <= 255)
jump_target(pc, offset) == pc + 2 + offset

\* `push(&mut stack, &mut sp, val)?; pc = npc`
PushAndGo(vm, val, npc) ==
    LET r == push(vm.stack, vm.sp, val)
    IN  IF r.ok THEN [vm EXCEPT !.stack = r.stack, !.sp = r.sp, !.pc = npc]
        ELSE [vm EXCEPT !.ret = "None"]

\* `let a = pop(..)?; push(.., f(a))?; pc += 1`
UnaryOp(vm, F(_)) ==
    LET a == pop(vm.stack, vm.sp)
    IN  IF ~a.ok THEN [vm EXCEPT !.ret = "None"]
        ELSE PushAndGo([vm EXCEPT !.sp = a.sp], F(a.val), vm.pc + 1)

\* `let b = pop(..)?; let a = pop(..)?; push(.., f(a, b))?; pc += 1`
BinaryOp(vm, F(_, _)) ==
    LET b == pop(vm.stack, vm.sp)
        a == pop(vm.stack, b.sp)
    IN  IF ~b.ok THEN [vm EXCEPT !.ret = "None"]
        ELSE IF ~a.ok THEN [vm EXCEPT !.sp = b.sp, !.ret = "None"]
        ELSE PushAndGo([vm EXCEPT !.sp = a.sp], F(a.val, b.val), vm.pc + 1)

OpGT(a, b) == u8_from(a > b)
OpLT(a, b) == u8_from(a < b)
OpEQ(a, b) == u8_from(a = b)
OpNOT(a) == u8_from(a = 0)
OpAND(a, b) == u8_from(a # 0 /\ b # 0)
OpOR(a, b) == u8_from(a # 0 \/ b # 0)

\* the SCORE_LAST value
score_last(opponent_history, my_history) ==
    IF my_history = <<>> THEN 3
    ELSE LET my_last  == my_history[Len(my_history)]
             opp_last == IF opponent_history = <<>> THEN Cooperate
                         ELSE opponent_history[Len(opponent_history)]
         IN  payoff(my_last, opp_last)[1]

\* the match arm of execute_inner for the opcode at vm.pc
exec_opcode(bytecode, opponent_history, my_history, round, vm) ==
    LET opcode == bytecode[vm.pc + 1]
        has_operand == vm.pc + 1 < Len(bytecode)
    IN  CASE opcode = COOP -> [vm EXCEPT !.ret = Cooperate]
          [] opcode = DEFECT -> [vm EXCEPT !.ret = Defect]
          [] opcode = RETURN ->
                LET v == pop(vm.stack, vm.sp)
                IN  IF ~v.ok THEN [vm EXCEPT !.ret = "None"]
                    ELSE [vm EXCEPT !.sp = v.sp,
                                    !.ret = IF v.val = 0 THEN Cooperate ELSE Defect]
          [] opcode = PUSH ->
                IF ~has_operand THEN [vm EXCEPT !.ret = "None"]
                ELSE PushAndGo(vm, bytecode[vm.pc + 2], vm.pc + 2)
          [] opcode = OPP_LAST -> PushAndGo(vm, move_to_u8(opponent_history), vm.pc + 1)
          [] opcode = MY_LAST -> PushAndGo(vm, move_to_u8(my_history), vm.pc + 1)
          [] opcode = OPP_N ->
                LET HistAt(n) == history_n_ago(opponent_history, n)
                IN  UnaryOp(vm, HistAt)
          [] opcode = MY_N ->
                LET HistAt(n) == history_n_ago(my_history, n)
                IN  UnaryOp(vm, HistAt)
          [] opcode = OPP_DEFECTS ->
                PushAndGo(vm, count_defects(opponent_history), vm.pc + 1)
          [] opcode = MY_DEFECTS ->
                PushAndGo(vm, count_defects(my_history), vm.pc + 1)
          [] opcode = ROUND -> PushAndGo(vm, round, vm.pc + 1)
          [] opcode = RAND ->
                LET r == next_percent(vm.rng)
                IN  PushAndGo([vm EXCEPT !.rng = r.state], r.value, vm.pc + 1)
          [] opcode = ADD -> BinaryOp(vm, saturating_add)
          [] opcode = SUB -> BinaryOp(vm, saturating_sub)
          [] opcode = MUL -> BinaryOp(vm, saturating_mul)
          [] opcode = GT -> BinaryOp(vm, OpGT)
          [] opcode = LT -> BinaryOp(vm, OpLT)
          [] opcode = EQ -> BinaryOp(vm, OpEQ)
          [] opcode = NOT -> UnaryOp(vm, OpNOT)
          [] opcode = AND -> BinaryOp(vm, OpAND)
          [] opcode = OR -> BinaryOp(vm, OpOR)
          [] opcode = DUP ->
                LET a == pop(vm.stack, vm.sp)
                    first == PushAndGo([vm EXCEPT !.sp = a.sp], a.val, vm.pc)
                IN  IF ~a.ok THEN [vm EXCEPT !.ret = "None"]
                    ELSE IF first.ret = "None" THEN first
                    ELSE PushAndGo(first, a.val, vm.pc + 1)
          [] opcode = JMP_FWD ->
                IF ~has_operand THEN [vm EXCEPT !.ret = "None"]
                ELSE [vm EXCEPT !.pc = jump_target(vm.pc, bytecode[vm.pc + 2])]
          [] opcode = JMP_FWD_IF ->
                LET cond == pop(vm.stack, vm.sp)
                IN  IF ~cond.ok THEN [vm EXCEPT !.ret = "None"]
                    ELSE IF ~has_operand THEN [vm EXCEPT !.sp = cond.sp, !.ret = "None"]
                    ELSE IF cond.val # 0
                         THEN [vm EXCEPT !.sp = cond.sp,
                                         !.pc = jump_target(vm.pc, bytecode[vm.pc + 2])]
                         ELSE [vm EXCEPT !.sp = cond.sp, !.pc = vm.pc + 2]
          [] opcode = SCORE_LAST ->
                PushAndGo(vm, score_last(opponent_history, my_history), vm.pc + 1)
          [] OTHER -> [vm EXCEPT !.ret = "None"]

\* the check one instruction early
fuel_exhausted_at_cap(fuel) == fuel >= MAX_FUEL

\* `if fuel > MAX_FUEL`
fuel_exhausted(fuel) == fuel > MAX_FUEL

\* one pass of the loop of execute_inner: the loop test, the fuel check,
\* then the opcode
vm_step(bytecode, opponent_history, my_history, round, vm) ==
    IF vm.pc >= Len(bytecode) THEN [vm EXCEPT !.ret = "None"]
    ELSE IF fuel_exhausted(vm.fuel + 1)
         THEN [vm EXCEPT !.fuel = vm.fuel + 1, !.ret = "None"]
    ELSE exec_opcode(bytecode, opponent_history, my_history, round,
                     [vm EXCEPT !.fuel = vm.fuel + 1])

\* the loop of execute_inner, run to its return
RECURSIVE vm_run(_, _, _, _, _)
vm_run(bytecode, opponent_history, my_history, round, vm) ==
    IF vm.ret # "Running" THEN vm
    ELSE Bind(vm_step(bytecode, opponent_history, my_history, round, vm),
              LAMBDA next : vm_run(bytecode, opponent_history, my_history,
                                   round, next))

execute_inner(bytecode, opponent_history, my_history, round, rng) ==
    vm_run(bytecode, opponent_history, my_history, round, VmStart(rng))

\* a fail-safe that resolves None to the other move
unwrap_or_defect(ret) == IF ret = "None" THEN Defect ELSE ret

\* `.unwrap_or(Move::Cooperate)`
unwrap_or_cooperate(ret) == IF ret = "None" THEN Cooperate ELSE ret

\* execute_bytecode: the move and the generator after the call
execute_bytecode(bytecode, opponent_history, my_history, round, rng) ==
    LET vm == execute_inner(bytecode, opponent_history, my_history, round, rng)
    IN  [move |-> unwrap_or_cooperate(vm.ret), rng |-> vm.rng]

(***************************************************************************)
(* Match execution (game.rs).  A PlayerStrategy is a record of kind        *)
(* "Builtin" (with its strategy) or "Custom" (with its bytecode).          *)
(***************************************************************************)
Builtin(strategy) == [kind |-> "Builtin", strategy |-> strategy]
Custom(code) == [kind |-> "Custom", bytecode |-> code]

\* execute_player_strategy: the evaluator switches on the tag
execute_player_strategy(strategy, opponent_history, my_history, round, rng) ==
    IF strategy.kind = "Builtin"
    THEN execute_strategy(strategy.strategy, opponent_history, my_history, round, rng)
    ELSE execute_bytecode(strategy.bytecode, opponent_history, my_history, round, rng)

\* RoundConfig::standard()
RoundConfig_standard == [min_rounds |-> 20, max_rounds |-> 50, end_probability |-> 5]

\* RoundConfig::compressed()
RoundConfig_compressed == [min_rounds |-> 10, max_rounds |-> 30, end_probability |-> 7]

\* the tier test with the limit inside the compressed tier
round_config_below(participant_count) ==
    IF participant_count < 1000 THEN RoundConfig_standard ELSE RoundConfig_compressed

\* `if participant_count <= 1000 { standard() } else { compressed() }`
round_config(participant_count) ==
    IF participant_count <= 1000 THEN RoundConfig_standard ELSE RoundConfig_compressed

\* one test of `while rounds < config.max_rounds` in determine_round_count and
\* the body that follows it: the generator, the count, and whether the loop
\* goes on
determine_step(rng, config, rounds) ==
    IF rounds < config.max_rounds
    THEN Bind(next_percent(rng), LAMBDA r :
             IF r.value < config.end_probability
             THEN [rng |-> r.state, rounds |-> rounds, again |-> FALSE]
             ELSE [rng |-> r.state, rounds |-> rounds + 1, again |-> TRUE])
    ELSE [rng |-> rng, rounds |-> rounds, again |-> FALSE]

\* determine_round_count: the count and the generator after the call
RECURSIVE determine_loop(_, _, _)
determine_loop(rng, config, rounds) ==
    Bind(determine_step(rng, config, rounds),
         LAMBDA d : IF d.again THEN determine_loop(d.rng, config, d.rounds)
                    ELSE [rng |-> d.rng, rounds |-> d.rounds])

determine_round_count(rng, config) == determine_loop(rng, config, config.min_rounds)

\* both players on the stream of the round
player_rng_shared(rng, round, player) == for_round(rng, round)

\* `rng.for_round(round * 2)` (player 0, A) and `rng.for_round(round * 2 + 1)`
\* (player 1, B); round * 2 + 1 <= 99 stays inside u8
player_rng(rng, round, player) == for_round(rng, round * 2 + player)

\* the body of `for round in 0..round_count`: the locals of run_match after it
round_result(g, rng_a, rng_b, exec_a, exec_b, score) ==
    [g EXCEPT !.round = g.round + 1,
              !.total_a = g.total_a + score[1],
              !.total_b = g.total_b + score[2],
              !.rounds = Append(g.rounds,
                  [round |-> g.round, move_a |-> exec_a.move,
                   move_b |-> exec_b.move, score_a |-> score[1],
                   score_b |-> score[2],
                   cumulative_a |-> g.total_a + score[1],
                   cumulative_b |-> g.total_b + score[2]]),
              !.history_a = Append(g.history_a, exec_a.move),
              !.history_b = Append(g.history_b, exec_b.move),
              !.rng_a = Append(g.rng_a, rng_a),
              !.rng_b = Append(g.rng_b, rng_b),
              !.draws_a = Append(g.draws_a, exec_a.rng # rng_a),
              !.draws_b = Append(g.draws_b, exec_b.rng # rng_b)]

\* the rounds played in turn: player B is shown the move A has just made
play_round_in_turn(g) ==
    Bind(player_rng(g.rng, g.round, 0), LAMBDA rng_a :
    Bind(player_rng(g.rng, g.round, 1), LAMBDA rng_b :
    Bind(execute_player_strategy(g.strategy_a, g.history_b, g.history_a,
                                 g.round, rng_a), LAMBDA exec_a :
    Bind(execute_player_strategy(g.strategy_b, Append(g.history_a, exec_a.move),
                                 g.history_b, g.round, rng_b), LAMBDA exec_b :
    Bind(payoff(exec_a.move, exec_b.move), LAMBDA score :
        round_result(g, rng_a, rng_b, exec_a, exec_b, score))))))

play_round(g) ==
    Bind(player_rng(g.rng, g.round, 0), LAMBDA rng_a :
    Bind(player_rng(g.rng, g.round, 1), LAMBDA rng_b :
    Bind(execute_player_strategy(g.strategy_a, g.history_b, g.history_a,
                                 g.round, rng_a), LAMBDA exec_a :
    Bind(execute_player_strategy(g.strategy_b, g.history_a, g.history_b,
                                 g.round, rng_b), LAMBDA exec_b :
    Bind(payoff(exec_a.move, exec_b.move), LAMBDA score :
        round_result(g, rng_a, rng_b, exec_a, exec_b, score))))))

(***************************************************************************)
(* Pairing generator (pairing.rs).  Option<u32> is the value or NoneU32;   *)
(* Option<(u32, u32)> is a record with kind "Some" or "None"; a call that  *)
(* aborts has kind "Panic".                                                *)
(***************************************************************************)
NoneU32 == -1
SomePair(a, b) == [kind |-> "Some", pair |-> <<a, b>>]
NonePair == [kind |-> "None", pair |-> <<>>]
PanicPair == [kind |-> "Panic", pair |-> <<>>]

\* a.div_ceil(b)
div_ceil(a, b) == (a + b - 1) \div b

Min(a, b) == IF a < b THEN a ELSE b

\* config_k.clamp(49, 99)
effective_k(participant_count, config_k) ==
    IF participant_count < 2 THEN 0
    ELSE IF participant_count <= 200 THEN participant_count - 1
    ELSE IF config_k < 49 THEN 49 ELSE IF config_k > 99 THEN 99 ELSE config_k

\* `if n % 2 == 0 { n / 2 - 1 } else { n / 2 }`
available_offsets(n) == IF n % 2 = 0 THEN n \div 2 - 1 ELSE n \div 2

\* the count with floor(k / 2) offsets in the circular regime
calculate_match_count_inner_floor(n, k) ==
    IF n < 2 \/ k = 0 THEN 0
    ELSE IF n <= k + 1
         THEN ((n * (n - 1)) \div 2) * div_ceil(k, n - 1)
         ELSE Min(k \div 2, available_offsets(n)) * n

calculate_match_count_inner(n, k) ==
    IF n < 2 \/ k = 0 THEN 0
    ELSE IF n <= k + 1
         THEN ((n * (n - 1)) \div 2) * div_ceil(k, n - 1)
         ELSE Min(div_ceil(k, 2), available_offsets(n)) * n

calculate_match_count(participant_count, matches_per_player) ==
    calculate_match_count_inner(participant_count, matches_per_player)

\* Newton's iteration for floor(sqrt(n)): `while y < x { x = y; y = (x + n / x) / 2; }`
RECURSIVE NewtonSqrt(_, _, _)
NewtonSqrt(n, x, y) ==
    IF y < x THEN Bind((y + n \div y) \div 2, LAMBDA z : NewtonSqrt(n, y, z))
    ELSE x

isqrt_ceil(n) ==
    IF n <= 1 THEN n
    ELSE LET x == NewtonSqrt(n, n, (n + 1) \div 2)
         IN  IF x * x = n THEN x ELSE x + 1

\* key | 1
U64Or1(key) == [key EXCEPT ![1] = IF key[1] % 2 = 0 THEN key[1] + 1 ELSE key[1]]

feistel_round_fn(input, key, modulus) ==
    U64Mid32Mod(U64WrappingAdd(U64WrappingMul(U64FromInt(input), U64Or1(key)),
                               U64Shr32(key)),
                modulus)

\* six successive outputs of SeededRng::new(seed, u32::MAX)
derive_feistel_keys(seed) ==
    Bind(SeededRng_new(seed, U32Max), LAMBDA s0 :
    Bind(xorshift64(s0), LAMBDA s1 :
    Bind(xorshift64(s1), LAMBDA s2 :
    Bind(xorshift64(s2), LAMBDA s3 :
    Bind(xorshift64(s3), LAMBDA s4 :
    Bind(xorshift64(s4), LAMBDA s5 :
    Bind(xorshift64(s5), LAMBDA s6 :
        <<U64WrappingMul(s1, OutputMult), U64WrappingMul(s2, OutputMult),
          U64WrappingMul(s3, OutputMult), U64WrappingMul(s4, OutputMult),
          U64WrappingMul(s5, OutputMult), U64WrappingMul(s6, OutputMult)>>)))))))

\* one pass of the cycle-walk loop: the six rounds on (val / half, val % half)
\* and the recombined value
feistel_pass(val, half, round_keys) ==
    Bind(val \div half, LAMBDA l0 :
    Bind(val % half, LAMBDA r0 :
    Bind((r0 + feistel_round_fn(l0, round_keys[1], half)) % half, LAMBDA r1 :
    Bind((l0 + feistel_round_fn(r1, round_keys[2], half)) % half, LAMBDA l2 :
    Bind((r1 + feistel_round_fn(l2, round_keys[3], half)) % half, LAMBDA r3 :
    Bind((l2 + feistel_round_fn(r3, round_keys[4], half)) % half, LAMBDA l4 :
    Bind((r3 + feistel_round_fn(l4, round_keys[5], half)) % half, LAMBDA r5 :
    Bind((l4 + feistel_round_fn(r5, round_keys[6], half)) % half, LAMBDA l6 :
        l6 * half + r5))))))))

\* `for _ in 0..1000`
FEISTEL_WALK_CAP == 1000

\* The cycle walk: val, the passes made, and res: Walking, Some(v) as v,
\* or NoneU32.
Walking == -2
WalkStart(idx) == [val |-> idx, iter |-> 0, res |-> Walking]

\* one pass of the loop of feistel_permute, and the None after the loop
feistel_walk_step(w, domain_size, half, round_keys) ==
    IF w.iter >= FEISTEL_WALK_CAP THEN [w EXCEPT !.res = NoneU32]
    ELSE LET v == feistel_pass(w.val, half, round_keys)
         IN  [val |-> v, iter |-> w.iter + 1,
              res |-> IF v < domain_size THEN v ELSE Walking]

RECURSIVE feistel_walk(_, _, _, _)
feistel_walk(w, domain_size, half, round_keys) ==
    IF w.res # Walking THEN w.res
    ELSE Bind(feistel_walk_step(w, domain_size, half, round_keys),
              LAMBDA next : feistel_walk(next, domain_size, half, round_keys))

\* the permutation without the cycle walk: one pass, None when it leaves
\* the domain
feistel_permute_single_pass(idx, domain_size, round_keys) ==
    IF domain_size <= 1 THEN 0
    ELSE Bind(feistel_pass(idx, isqrt_ceil(domain_size), round_keys),
              LAMBDA val : IF val < domain_size THEN val ELSE NoneU32)

feistel_permute(idx, domain_size, round_keys) ==
    IF domain_size <= 1 THEN 0
    ELSE feistel_walk(WalkStart(idx), domain_size, isqrt_ceil(domain_size),
                      round_keys)

\* the slice left as the loop filled it
left_unsorted(seq) == seq

\* result[..count].sort_unstable(): position i holds the value v with fewer
\* than i elements below v and at least i elements not above v
sort_unstable(seq) ==
    Tup([i \in 1..Len(seq) |->
          CHOOSE v \in {seq[j] : j \in 1..Len(seq)} :
              /\ Cardinality({j \in 1..Len(seq) : seq[j] < v}) < i
              /\ Cardinality({j \in 1..Len(seq) : seq[j] <= v}) >= i])

\* the search of result[..count] left out: found stays false
never_found(result, t) == FALSE

\* `for i in 0..count { if result[i] == t { found = true; break; } }`
Found(result, t) == \E i \in 1..Len(result) : result[i] = t

\* The Floyd loop of select_offsets: the loop variable j, the generator and
\* result[..count].
FloydStart(n, m, seed) ==
    [j |-> available_offsets(n) - m + 1, rng |-> SeededRng_new(seed, U64Zero),
     result |-> <<>>]

\* `result[count] = if found { j as u32 } else { t }; count += 1;` for the
\* draw t, which leaves the generator in state rng
floyd_place(fl, t, rng) ==
    [j |-> fl.j + 1, rng |-> rng,
     result |-> Append(fl.result, IF Found(fl.result, t) THEN fl.j ELSE t)]

\* one pass of `for j in (big_n - m + 1)..=big_n`
floyd_step(fl) ==
    LET r == next_range(fl.rng, fl.j)
    IN  floyd_place(fl, r.value + 1, r.state)

RECURSIVE floyd_loop(_, _)
floyd_loop(fl, big_n) ==
    IF fl.j > big_n THEN fl.result
    ELSE Bind(floyd_step(fl), LAMBDA next : floyd_loop(next, big_n))

\* the number of offsets select_offsets produces
OFFSET_CAPACITY == 50
offsets_selected(n, k) ==
    Min(Min(div_ceil(k, 2), available_offsets(n)), OFFSET_CAPACITY)

\* select_offsets: the sorted offsets result[..count]; with debug
\* assertions the call aborts when more than 50 offsets are asked for
select_offsets(n, k, seed, debug_assertions) ==
    LET available == available_offsets(n)
        m == offsets_selected(n, k)
    IN  IF debug_assertions /\ Min(div_ceil(k, 2), available) > OFFSET_CAPACITY
        THEN [kind |-> "Panic", offsets |-> <<>>]
        ELSE [kind |-> "Ok",
              offsets |-> sort_unstable(floyd_loop(FloydStart(n, m, seed),
                                                   available))]

\* the two correction loops of unrank_pair
RECURSIVE unrank_down(_, _)
unrank_down(b, rank) ==
    IF b > 0 /\ (b * (b - 1)) \div 2 > rank
    THEN Bind(b - 1, LAMBDA c : unrank_down(c, rank)) ELSE b

RECURSIVE unrank_up(_, _)
unrank_up(b, rank) ==
    IF ((b + 1) * b) \div 2 <= rank
    THEN Bind(b + 1, LAMBDA c : unrank_up(c, rank)) ELSE b

unrank_pair(rank) ==
    LET val == 1 + 8 * rank
        s == NewtonSqrt(val, val, (val + 1) \div 2)
        b == unrank_up(unrank_down((1 + s) \div 2, rank), rank)
    IN  <<rank - (b * (b - 1)) \div 2, b>>

\* unrank_pair in the widths of the source: val, s and t are u64, b and the
\* products are u32.  `1u64 + 8 * rank as u64`:
unrank_val(rank) ==
    U64WrappingAdd(U64FromInt(1), U64WrappingMul(U64FromInt(8), U64FromInt(rank)))

\* `while t < s { s = t; t = (s + val / s) / 2; }`
RECURSIVE U64NewtonSqrt(_, _, _)
U64NewtonSqrt(val, s, t) ==
    IF U64Geq(t, s) THEN s
    ELSE Bind(U64Shr1(U64WrappingAdd(t, U64Div(val, t))),
              LAMBDA z : U64NewtonSqrt(val, t, z))

\* `let mut b = ((1 + s) / 2) as u32`
unrank_estimate(rank) ==
    LET val == unrank_val(rank)
        s == U64NewtonSqrt(val, val, U64Shr1(U64WrappingAdd(val, U64FromInt(1))))
    IN  U64ToInt(U64Shr1(U64WrappingAdd(U64FromInt(1), s)))

\* `x * y / 2` in u32: whether the product leaves u32, and half of the
\* product reduced modulo 2^32
half_product_u32(x, y) ==
    LET p == U64WrappingMul(U64FromInt(x), U64FromInt(y))
    IN  [overflow |-> <<p[5], p[6], p[7], p[8]>> # <<0, 0, 0, 0>>,
         half |-> p[1] \div 2 + 128 * p[2] + 32768 * p[3] + 8388608 * p[4]]

\* `rank - b * (b - 1) / 2` (a u32 above 2^31 - 1 is kept as its value
\* minus 2^32)
unrank_remainder(rank, half) == rank - half

\* the round-robin pair without `% c_n_2`
canonical_to_pair_round_robin_unreduced(canonical_idx, n) ==
    LET p == unrank_pair(canonical_idx)
    IN  SomePair(p[1], p[2])

canonical_to_pair_round_robin(canonical_idx, n) ==
    LET c_n_2 == (n * (n - 1)) \div 2
        p == unrank_pair(canonical_idx % c_n_2)
    IN  SomePair(p[1], p[2])

\* the circular pair without the `if i < j` ordering
canonical_to_pair_circular_unordered(canonical_idx, n, offsets) ==
    LET group == canonical_idx \div n
        i == canonical_idx % n
    IN  IF group >= Len(offsets) THEN PanicPair
        ELSE SomePair(i, (i + offsets[group + 1]) % n)

\* offsets[group as usize] aborts when group is not below the slice length
canonical_to_pair_circular(canonical_idx, n, offsets) ==
    LET group == canonical_idx \div n
        i == canonical_idx % n
    IN  IF group >= Len(offsets) THEN PanicPair
        ELSE LET j == (i + offsets[group + 1]) % n
             IN  IF i < j THEN SomePair(i, j) ELSE SomePair(j, i)

\* the pair for one canonical index, in the regime of (n, k)
pair_of_canonical(canonical_idx, n, k, selected) ==
    IF n <= k + 1 THEN canonical_to_pair_round_robin(canonical_idx, n)
    ELSE IF selected.kind = "Panic" THEN PanicPair
    ELSE canonical_to_pair_circular(canonical_idx, n, selected.offsets)

\* `match_index + 1 >= total`: the last index counted as past the end
index_from_last(match_index, total) == match_index + 1 >= total

\* `if match_index >= total { return None; }`
index_past_total(match_index, total) == match_index >= total

\* get_pairing_for_match with the round keys already derived
get_pairing_with_keys(n, k, seed, round_keys, match_index, debug_assertions) ==
    LET total == calculate_match_count_inner(n, k)
        canonical_idx == feistel_permute(match_index, total, round_keys)
    IN  IF index_past_total(match_index, total) THEN NonePair
        ELSE IF canonical_idx = NoneU32 THEN NonePair
        ELSE pair_of_canonical(canonical_idx, n, k,
                 IF n <= k + 1 THEN [kind |-> "Ok", offsets |-> <<>>]
                 ELSE select_offsets(n, k, seed, debug_assertions))

get_pairing_for_match(participant_count, matches_per_player, seed, match_index, debug_assertions) ==
    get_pairing_with_keys(participant_count, matches_per_player, seed,
                          derive_feistel_keys(seed), match_index, debug_assertions)

(***************************************************************************)
(* The on-chain program (programs/prisoners-arena).  An arena state `a`    *)
(* holds the config account, one tournament account with the entry         *)
(* accounts of its players, the tournament created by its finalization,    *)
(* and the clock.  An instruction is an operator from the state and the    *)
(* instruction's inputs to [err, st]: err is "Ok" or the error, st the     *)
(* state after it; a failed transaction leaves the state as it was.        *)
(* Public keys are numbers: 0 is Pubkey::default(), 1..MaxPlayers are      *)
(* players.  A u32 that wrapped below zero is written as the negative      *)
(* number of the same residue.                                             *)
(***************************************************************************)
MaxPlayers == 3

DefaultPubkey == 0
PlayerKeys == 1..MaxPlayers
OperatorKey == MaxPlayers + 1
AdminKey == MaxPlayers + 2

CLAIM_EXPIRY_SECONDS == 2592000
TOURNAMENT_CLOSURE_SECONDS == 2592000
MATCHES_PER_TX == 5
BYTES_PER_PLAYER == 42
\* Config::LEN, Tournament::BASE_SPACE
Config_LEN == 141
BASE_SPACE == 207
\* strategies[i] of a slot that is unrevealed or refunded
U8Max == 255

\* lamports per byte of Rent::minimum_balance
LamportsPerByte == 1

minimum_balance(data_len) == data_len * LamportsPerByte

Ok(st) == [err |-> "Ok", st |-> st]
Err(error, st) == [err |-> error, st |-> st]

\* Option: of a number, and of a byte string
Some(v) == [some |-> TRUE, v |-> v]
NoneOpt == [some |-> FALSE, v |-> 0]
NoneBytes == [some |-> FALSE, v |-> <<>>]

\* `#[derive(Default)]` of Config, before the account is created
Config_default ==
    [exists |-> FALSE, admin |-> DefaultPubkey, operator |-> DefaultPubkey,
     house_fee_bps |-> 0, stake |-> 0, min_participants |-> 0,
     max_participants |-> 0, registration_duration |-> 0,
     matches_per_player |-> 0, accumulated_fees |-> 0,
     current_tournament_id |-> 0, reveal_duration |-> 0, operator_tx_fee |-> 0,
     lamports |-> 0]

\* `#[derive(Default)]` of Tournament, before the account is created
Tournament_default ==
    [exists |-> FALSE, id |-> 0, state |-> "Registration", stake |-> 0,
     house_fee_bps |-> 0, matches_per_player |-> 0, registration_duration |-> 0,
     pool |-> 0, participant_count |-> 0, registration_ends |-> 0,
     matches_completed |-> 0, matches_total |-> 0, randomness_seed |-> [i \in 1..32 |-> 0],
     min_winning_score |-> 0, winner_count |-> 0, winner_pool |-> 0,
     claims_processed |-> 0, payout_started_at |-> 0, entries_remaining |-> 0,
     round_tier |-> 0, reveal_ends |-> 0, reveal_duration |-> 0,
     reveals_completed |-> 0, forfeits |-> 0, players |-> <<>>, scores |-> <<>>,
     strategies |-> <<>>, operator_costs |-> 0, lamports |-> 0]

\* the assignments that initialize_config and finalize_tournament make to the
\* tournament account they create (`init`: created rent-exempt)
Tournament_created(id, house_fee_bps, config, now) ==
    [Tournament_default EXCEPT
        !.exists = TRUE, !.id = id, !.state = "Registration",
        !.stake = config.stake, !.house_fee_bps = house_fee_bps,
        !.matches_per_player = config.matches_per_player,
        !.registration_duration = config.registration_duration,
        !.reveal_duration = config.reveal_duration,
        !.registration_ends = now + config.registration_duration,
        !.lamports = minimum_balance(BASE_SPACE)]

\* initialize_config: the config account and tournament #0
initialize_config(a, admin, params) ==
    IF a.config.exists \/ a.tournament.exists THEN Err("AccountInUse", a)
    ELSE IF ~(params.min_participants >= 2 /\ params.min_participants % 2 = 0)
    THEN Err("InvalidMinParticipants", a)
    ELSE LET config == [Config_default EXCEPT
                           !.exists = TRUE, !.admin = admin,
                           !.operator = params.operator, !.house_fee_bps = 0,
                           !.stake = params.stake,
                           !.min_participants = params.min_participants,
                           !.max_participants = params.max_participants,
                           !.registration_duration = params.registration_duration,
                           !.matches_per_player = params.matches_per_player,
                           !.accumulated_fees = 0, !.current_tournament_id = 0,
                           !.reveal_duration = params.reveal_duration,
                           !.operator_tx_fee = 0,
                           !.lamports = minimum_balance(Config_LEN)]
         IN  Ok([a EXCEPT !.config = config,
                          !.tournament = Tournament_created(0, 0, config, a.now)])

\* update_config: one `if let Some(..)` after the other; the first
\* requirement that fails fails the instruction
update_config(a, signer, params) ==
    LET c0 == a.config
        c1 == IF params.operator.some THEN [c0 EXCEPT !.operator = params.operator.v]
              ELSE c0
        c2 == IF params.house_fee_bps.some
              THEN [c1 EXCEPT !.house_fee_bps = params.house_fee_bps.v] ELSE c1
        c3 == IF params.stake.some THEN [c2 EXCEPT !.stake = params.stake.v] ELSE c2
        c4 == IF params.min_participants.some
              THEN [c3 EXCEPT !.min_participants = params.min_participants.v] ELSE c3
        c5 == IF params.max_participants.some
              THEN [c4 EXCEPT !.max_participants = params.max_participants.v] ELSE c4
        c6 == IF params.registration_duration.some
              THEN [c5 EXCEPT !.registration_duration = params.registration_duration.v]
              ELSE c5
        c7 == IF params.matches_per_player.some
              THEN [c6 EXCEPT !.matches_per_player = params.matches_per_player.v]
              ELSE c6
        c8 == IF params.reveal_duration.some
              THEN [c7 EXCEPT !.reveal_duration = params.reveal_duration.v] ELSE c7
        c9 == IF params.operator_tx_fee.some
              THEN [c8 EXCEPT !.operator_tx_fee = params.operator_tx_fee.v] ELSE c8
    IN  IF ~a.config.exists THEN Err("AccountNotInitialized", a)
        ELSE IF signer # a.config.admin THEN Err("Unauthorized", a)
        ELSE IF params.house_fee_bps.some /\ ~(params.house_fee_bps.v <= 10000)
        THEN Err("Overflow", a)
        ELSE IF params.stake.some /\ ~(params.stake.v > 0) THEN Err("Overflow", a)
        ELSE IF params.min_participants.some
                /\ ~(params.min_participants.v >= 2 /\ params.min_participants.v % 2 = 0)
        THEN Err("InvalidMinParticipants", a)
        ELSE IF params.max_participants.some
                /\ ~(params.max_participants.v >= c4.min_participants)
        THEN Err("Overflow", a)
        ELSE IF params.registration_duration.some /\ ~(params.registration_duration.v > 0)
        THEN Err("Overflow", a)
        ELSE IF params.matches_per_player.some /\ ~(params.matches_per_player.v > 0)
        THEN Err("Overflow", a)
        ELSE IF params.reveal_duration.some /\ ~(params.reveal_duration.v > 0)
        THEN Err("Overflow", a)
        ELSE Ok([a EXCEPT !.config = c9])

\* withdraw_fees: capped to keep the config account rent-exempt
withdraw_fees(a, signer) ==
    IF ~a.config.exists THEN Err("AccountNotInitialized", a)
    ELSE IF signer # a.config.admin THEN Err("Unauthorized", a)
    ELSE IF ~(a.config.accumulated_fees > 0) THEN Err("NoFeesToWithdraw", a)
    ELSE LET max_withdraw == saturating_sub(a.config.lamports,
                                            minimum_balance(Config_LEN))
             amount == Min(a.config.accumulated_fees, max_withdraw)
         IN  Ok([a EXCEPT !.config.accumulated_fees = @ - amount,
                          !.config.lamports = @ - amount])

\* `Strategy::Custom as u8`
CustomIndex == 9

\* `#[derive(Default)]` of Entry, before the account is created and after it
\* is closed.  A commitment is written as the preimage it is the hash of and
\* the first byte of the hash; created_at and the bumps, which no instruction
\* reads, are left out.
Entry_default ==
    [exists |-> FALSE, player |-> DefaultPubkey, index |-> 0,
     commitment |-> [strategy |-> 0, bytecode |-> <<>>, salt |-> 0, byte0 |-> 0],
     strategy |-> 0, revealed |-> FALSE, score |-> 0, matches_played |-> 0,
     paid_out |-> FALSE, bytecode |-> <<>>]

\* Tournament::BASE_SPACE + players * BYTES_PER_PLAYER
tournament_space(players) == BASE_SPACE + players * BYTES_PER_PLAYER

\* the account of a transaction that drove an unsigned field below zero:
\* the transaction fails when overflow is checked, the field wraps when not;
\* lamports below zero, and a tournament account left below its rent
\* minimum, fail it in both builds
Commit(a, st) ==
    LET t == st.tournament
    IN  IF t.lamports < 0 \/ st.config.lamports < 0 THEN Err("InsufficientFunds", a)
        ELSE IF t.exists /\ t.lamports < minimum_balance(tournament_space(Len(t.players)))
        THEN Err("InsufficientFundsForRent", a)
        ELSE IF a.overflow_checks
                /\ (t.participant_count < 0 \/ t.entries_remaining < 0
                    \/ t.reveals_completed < 0 \/ t.pool < 0)
        THEN Err("Panic", a)
        ELSE Ok(st)

\* enter_tournament: `realloc` grows the tournament account by one player
\* and tops it up to the new rent minimum before the handler runs
enter_tournament(a, player, commitment) ==
    LET t == a.tournament
        entry == a.entries[player]
        new_rent_minimum == minimum_balance(tournament_space(Len(t.players) + 1))
        top_up == saturating_sub(new_rent_minimum, t.lamports)
        created == [Entry_default EXCEPT
                       !.exists = TRUE, !.player = player, !.index = Len(t.players),
                       !.commitment = commitment]
    IN  IF ~a.config.exists \/ ~t.exists THEN Err("AccountNotInitialized", a)
        ELSE IF entry.exists THEN Err("AccountInUse", a)
        ELSE IF t.state # "Registration" THEN Err("RegistrationClosed", a)
        ELSE IF ~(Len(t.players) < a.config.max_participants)
        THEN Err("TournamentFull", a)
        ELSE Ok([a EXCEPT
                    !.entries[player] = created,
                    !.tournament.players = Append(@, player),
                    !.tournament.scores = Append(@, 0),
                    !.tournament.strategies = Append(@, U8Max),
                    !.tournament.participant_count = @ + 1,
                    !.tournament.entries_remaining = @ + 1,
                    !.tournament.pool = @ + t.stake,
                    !.tournament.lamports = @ + top_up + t.stake])

\* the hash of the revealed preimage equals the commitment
commitment_matches(commitment, strategy, salt, bytecode) ==
    /\ commitment.strategy = strategy
    /\ commitment.salt = salt
    /\ strategy = CustomIndex => commitment.bytecode = bytecode.v

\* reveal_strategy (player.rs)
reveal_strategy(a, player, strategy, salt, bytecode) ==
    LET t == a.tournament
        entry == a.entries[player]
        custom == strategy = CustomIndex
    IN  IF ~t.exists \/ ~entry.exists THEN Err("AccountNotInitialized", a)
        ELSE IF t.state # "Reveal" THEN Err("InvalidState", a)
        ELSE IF ~(a.now <= t.reveal_ends) THEN Err("RevealPeriodEnded", a)
        ELSE IF entry.revealed THEN Err("AlreadyRevealed", a)
        ELSE IF custom /\ ~bytecode.some THEN Err("InvalidBytecode", a)
        ELSE IF custom /\ ~(bytecode.v # <<>> /\ Len(bytecode.v) <= MAX_BYTECODE_LEN)
        THEN Err("InvalidBytecode", a)
        ELSE IF custom /\ validate_bytecode(bytecode.v) # VOk
        THEN Err("InvalidBytecode", a)
        ELSE IF ~commitment_matches(entry.commitment, strategy, salt, bytecode)
        THEN Err("CommitmentMismatch", a)
        ELSE Ok([a EXCEPT
                    !.entries[player].bytecode = IF custom THEN bytecode.v ELSE @,
                    !.entries[player].strategy = strategy,
                    !.entries[player].revealed = TRUE,
                    !.tournament.strategies[entry.index + 1] = strategy,
                    !.tournament.reveals_completed = @ + 1])

\* a refund that leaves reveals_completed as it was
claim_refund_keeping_reveals(a, player) ==
    LET t == a.tournament
        entry == a.entries[player]
    IN  IF ~t.exists \/ ~entry.exists THEN Err("AccountNotInitialized", a)
        ELSE IF ~(t.state = "Registration" \/ t.state = "Reveal")
        THEN Err("InvalidState", a)
        ELSE Commit(a, [a EXCEPT
                    !.tournament.lamports = @ - t.stake,
                    !.tournament.players[entry.index + 1] = DefaultPubkey,
                    !.tournament.strategies[entry.index + 1] = U8Max,
                    !.tournament.participant_count = @ - 1,
                    !.tournament.entries_remaining = @ - 1,
                    !.tournament.pool = @ - t.stake,
                    !.entries[player] = Entry_default])

\* claim_refund: the entry account is closed (`close = player`)
claim_refund(a, player) ==
    LET t == a.tournament
        entry == a.entries[player]
    IN  IF ~t.exists \/ ~entry.exists THEN Err("AccountNotInitialized", a)
        ELSE IF ~(t.state = "Registration" \/ t.state = "Reveal")
        THEN Err("InvalidState", a)
        ELSE Commit(a, [a EXCEPT
                    !.tournament.lamports = @ - t.stake,
                    !.tournament.players[entry.index + 1] = DefaultPubkey,
                    !.tournament.strategies[entry.index + 1] = U8Max,
                    !.tournament.participant_count = @ - 1,
                    !.tournament.entries_remaining = @ - 1,
                    !.tournament.pool = @ - t.stake,
                    !.tournament.reveals_completed =
                        IF entry.revealed THEN @ - 1 ELSE @,
                    !.entries[player] = Entry_default])

\* claim_payout: the entry account is closed (`close = player`)
claim_payout(a, player) ==
    LET t == a.tournament
        entry == a.entries[player]
    IN  IF ~t.exists \/ ~entry.exists THEN Err("AccountNotInitialized", a)
        ELSE IF t.state # "Payout" THEN Err("InvalidState", a)
        ELSE IF entry.paid_out THEN Err("AlreadyPaid", a)
        ELSE IF ~(a.now < t.payout_started_at + CLAIM_EXPIRY_SECONDS)
        THEN Err("ClaimExpired", a)
        ELSE IF ~(entry.score >= t.min_winning_score) THEN Err("NotWinner", a)
        ELSE IF t.winner_count = 0 THEN Err("Overflow", a)
        ELSE Commit(a, [a EXCEPT
                    !.tournament.lamports = @ - (t.winner_pool \div t.winner_count),
                    !.tournament.claims_processed = @ + 1,
                    !.tournament.entries_remaining = @ - 1,
                    !.entries[player] = Entry_default])

\* `tournament.operator_costs.checked_add(config.operator_tx_fee)`
track_operator_costs(a) ==
    [a EXCEPT !.tournament.operator_costs = @ + a.config.operator_tx_fee]

\* close_registration
close_registration(a, signer) ==
    LET t == a.tournament
    IN  IF ~a.config.exists \/ ~t.exists THEN Err("AccountNotInitialized", a)
        ELSE IF signer # a.config.operator THEN Err("Unauthorized", a)
        ELSE IF t.state # "Registration" THEN Err("InvalidState", a)
        ELSE IF ~(a.now >= t.registration_ends) THEN Err("RegistrationOpen", a)
        ELSE IF ~(t.participant_count >= a.config.min_participants)
        THEN Err("MinParticipantsNotReached", a)
        ELSE Ok([track_operator_costs(a) EXCEPT
                    !.tournament.state = "Reveal",
                    !.tournament.reveal_ends = a.now + t.reveal_duration])

\* `players.iter().rposition(|pk| *pk != Pubkey::default())`, 0 when there
\* is none and the position counted from 1 otherwise
RECURSIVE rposition(_, _)
rposition(players, i) ==
    IF i = 0 THEN 0
    ELSE IF players[i] # DefaultPubkey THEN i
    ELSE rposition(players, i - 1)

\* `seed[i] ^= b` for the four bytes of the tournament id
seed_for_tournament(seed, id) ==
    LET low == U64Xor(<<seed[1], seed[2], seed[3], seed[4], seed[5], seed[6],
                        seed[7], seed[8]>>, U64FromInt(id))
    IN  [i \in 1..32 |-> IF i <= 4 THEN low[i] ELSE seed[i]]

\* close_reveal without active players: Running with no matches
running_without_matches(a) ==
    [a EXCEPT !.tournament.state = "Running", !.tournament.matches_total = 0,
              !.tournament.matches_completed = 0]

\* an odd-player refund that counts the entry account as closed
refund_last_player_closing_entry(a, last_index) ==
    [a EXCEPT !.tournament.lamports = @ - a.tournament.stake,
              !.tournament.players[last_index] = DefaultPubkey,
              !.tournament.strategies[last_index] = U8Max,
              !.tournament.participant_count = @ - 1,
              !.tournament.entries_remaining = @ - 1,
              !.tournament.reveals_completed = @ - 1,
              !.tournament.pool = @ - a.tournament.stake]

\* an odd-player refund that leaves the pool as it was
refund_last_player_keeping_pool(a, last_index) ==
    [a EXCEPT !.tournament.lamports = @ - a.tournament.stake,
              !.tournament.players[last_index] = DefaultPubkey,
              !.tournament.strategies[last_index] = U8Max,
              !.tournament.participant_count = @ - 1,
              !.tournament.reveals_completed = @ - 1]

\* close_reveal, the refund of the last active player of an odd field
refund_last_player(a, last_index) ==
    [a EXCEPT !.tournament.lamports = @ - a.tournament.stake,
              !.tournament.players[last_index] = DefaultPubkey,
              !.tournament.strategies[last_index] = U8Max,
              !.tournament.participant_count = @ - 1,
              !.tournament.reveals_completed = @ - 1,
              !.tournament.pool = @ - a.tournament.stake]

\* a seeded field taken straight to Payout
start_in_payout(a, slot_hashes) ==
    LET t == a.tournament
        seed == seed_for_tournament(slot_hashes.v, t.id)
        active == t.participant_count - t.forfeits
        k == effective_k(active, t.matches_per_player)
    IN  [a EXCEPT !.tournament.randomness_seed = seed,
                  !.tournament.matches_per_player = k,
                  !.tournament.round_tier = IF active <= 1000 THEN 0 ELSE 1,
                  !.tournament.matches_total = calculate_match_count(active, k),
                  !.tournament.state = "Payout"]

\* close_reveal from the seed on: seed, adaptive K, tier, match count
start_running(a, slot_hashes) ==
    LET t == a.tournament
        seed == seed_for_tournament(slot_hashes.v, t.id)
        active == t.participant_count - t.forfeits
        k == effective_k(active, t.matches_per_player)
    IN  [a EXCEPT !.tournament.randomness_seed = seed,
                  !.tournament.matches_per_player = k,
                  !.tournament.round_tier = IF active <= 1000 THEN 0 ELSE 1,
                  !.tournament.matches_total = calculate_match_count(active, k),
                  !.tournament.state = "Running"]

\* a close_reveal that checks the refund accounts and refunds nobody
close_reveal_without_refund(a, signer, slot_hashes, refund_entry, refund_player) ==
    LET t == a.tournament
        a1 == track_operator_costs(a)
        active_count == t.participant_count - t.forfeits
        last_index == rposition(t.players, Len(t.players))
        last_player == t.players[last_index]
        odd == active_count % 2 = 1
        a2 == a1
        active_after_refund == a2.tournament.participant_count - a2.tournament.forfeits
    IN  IF ~a.config.exists \/ ~t.exists THEN Err("AccountNotInitialized", a)
        ELSE IF refund_entry.some /\ ~a.entries[refund_entry.v].exists
        THEN Err("AccountNotInitialized", a)
        ELSE IF signer # a.config.operator THEN Err("Unauthorized", a)
        ELSE IF t.state # "Reveal" THEN Err("InvalidState", a)
        ELSE IF ~(a.now > t.reveal_ends) THEN Err("RevealPeriodNotEnded", a)
        ELSE IF t.reveals_completed # active_count THEN Err("UnprocessedForfeits", a)
        ELSE IF active_count = 0 THEN Ok(running_without_matches(a1))
        ELSE IF odd /\ last_index = 0 THEN Err("InvalidState", a)
        ELSE IF odd /\ (~refund_entry.some \/ ~refund_player.some)
        THEN Err("InvalidEntryAccount", a)
        ELSE IF odd /\ ~(a.entries[refund_entry.v].player = last_player
                         /\ refund_player.v = last_player)
        THEN Err("InvalidEntryAccount", a)
        ELSE IF odd /\ a.entries[refund_entry.v].index # last_index - 1
        THEN Err("InvalidEntryAccount", a)
        ELSE IF (Commit(a, a2)).err # "Ok" THEN Commit(a, a2)
        ELSE IF active_after_refund = 0 THEN Ok(running_without_matches(a2))
        ELSE IF ~slot_hashes.some THEN Err("SlotHashUnavailable", a)
        ELSE Ok(start_running(a2, slot_hashes))

\* close_reveal: refund_entry and refund_player are the optional accounts,
\* slot_hashes the 32 bytes at 16..48 of the sysvar when it has them
close_reveal(a, signer, slot_hashes, refund_entry, refund_player) ==
    LET t == a.tournament
        a1 == track_operator_costs(a)
        active_count == t.participant_count - t.forfeits
        last_index == rposition(t.players, Len(t.players))
        last_player == t.players[last_index]
        odd == active_count % 2 = 1
        a2 == IF odd THEN refund_last_player(a1, last_index) ELSE a1
        active_after_refund == a2.tournament.participant_count - a2.tournament.forfeits
    IN  IF ~a.config.exists \/ ~t.exists THEN Err("AccountNotInitialized", a)
        ELSE IF refund_entry.some /\ ~a.entries[refund_entry.v].exists
        THEN Err("AccountNotInitialized", a)
        ELSE IF signer # a.config.operator THEN Err("Unauthorized", a)
        ELSE IF t.state # "Reveal" THEN Err("InvalidState", a)
        ELSE IF ~(a.now > t.reveal_ends) THEN Err("RevealPeriodNotEnded", a)
        ELSE IF t.reveals_completed # active_count THEN Err("UnprocessedForfeits", a)
        ELSE IF active_count = 0 THEN Ok(running_without_matches(a1))
        ELSE IF odd /\ last_index = 0 THEN Err("InvalidState", a)
        ELSE IF odd /\ (~refund_entry.some \/ ~refund_player.some)
        THEN Err("InvalidEntryAccount", a)
        ELSE IF odd /\ ~(a.entries[refund_entry.v].player = last_player
                         /\ refund_player.v = last_player)
        THEN Err("InvalidEntryAccount", a)
        ELSE IF odd /\ a.entries[refund_entry.v].index # last_index - 1
        THEN Err("InvalidEntryAccount", a)
        ELSE IF (Commit(a, a2)).err # "Ok" THEN Commit(a, a2)
        ELSE IF active_after_refund = 0 THEN Ok(running_without_matches(a2))
        ELSE IF ~slot_hashes.some THEN Err("SlotHashUnavailable", a)
        ELSE Ok(start_running(a2, slot_hashes))

\* Strategy::from_index is Some for every index below 9
forfeit_strategy(commitment) == commitment.byte0 % 9

\* forfeit_unrevealed on the entry account of `player`
forfeit_unrevealed(a, signer, player) ==
    LET t == a.tournament
        entry == a.entries[player]
        strategy == forfeit_strategy(entry.commitment)
    IN  IF ~a.config.exists \/ ~t.exists \/ ~entry.exists
        THEN Err("AccountNotInitialized", a)
        ELSE IF signer # a.config.operator THEN Err("Unauthorized", a)
        ELSE IF t.state # "Reveal" THEN Err("InvalidState", a)
        ELSE IF ~(a.now > t.reveal_ends) THEN Err("RevealPeriodNotEnded", a)
        ELSE IF entry.revealed THEN Err("AlreadyRevealed", a)
        ELSE Ok([track_operator_costs(a) EXCEPT
                    !.entries[player].strategy = strategy,
                    !.entries[player].revealed = TRUE,
                    !.tournament.strategies[entry.index + 1] = strategy,
                    !.tournament.reveals_completed = @ + 1])

\* the rounds of run_match from round g.round on
RECURSIVE play_rounds(_)
play_rounds(g) == IF g.round >= g.round_count THEN g ELSE play_rounds(play_round(g))

\* run_match: the MatchResult
run_match(strategy_a, strategy_b, seed, match_index, participant_count) ==
    Bind(round_config(participant_count), LAMBDA config :
    Bind(determine_round_count(SeededRng_new(seed, U64FromInt(match_index)), config),
         LAMBDA d :
    Bind(play_rounds([at |-> "Rounds", strategy_a |-> strategy_a,
                      strategy_b |-> strategy_b, seed |-> seed,
                      match_index |-> match_index,
                      participant_count |-> participant_count, rng |-> d.rng,
                      round_config |-> config, round_count |-> d.rounds,
                      round |-> 0, history_a |-> <<>>, history_b |-> <<>>,
                      rounds |-> <<>>, total_a |-> 0, total_b |-> 0,
                      rng_a |-> <<>>, rng_b |-> <<>>, draws_a |-> <<>>,
                      draws_b |-> <<>>]),
         LAMBDA g : [rounds |-> g.rounds, total_score_a |-> g.total_a,
                     total_score_b |-> g.total_b, round_count |-> g.round_count])))

\* the strategies by their index (state.rs)
StrategyOfIndex ==
    <<"TitForTat", "AlwaysDefect", "AlwaysCooperate", "GrimTrigger", "Pavlov",
      "SuspiciousTitForTat", "Random", "TitForTwoTats", "Gradual">>

\* to_player_strategy: the stored bytecode for Custom, the built-in strategy
\* of the index otherwise
to_player_strategy(strategy, bytecode) ==
    IF strategy = CustomIndex THEN Custom(bytecode)
    ELSE Builtin(Strategy_new(StrategyOfIndex[strategy + 1]))

\* run_matches, one match played: both entry accounts and the tournament's
\* scores
match_recorded(st, player_a, player_b, idx_a, idx_b, result) ==
    [st EXCEPT !.entries[player_a].score = @ + result.total_score_a,
               !.entries[player_b].score = @ + result.total_score_b,
               !.entries[player_a].matches_played = @ + 1,
               !.entries[player_b].matches_played = @ + 1,
               !.tournament.scores[idx_a + 1] = @ + result.total_score_a,
               !.tournament.scores[idx_b + 1] = @ + result.total_score_b,
               !.tournament.matches_completed = @ + 1]

\* run_matches, `for batch_idx in 0..matches_to_run` from match_index on;
\* remaining_accounts is the set of players whose entry accounts are passed
RECURSIVE run_batch(_, _, _, _, _)
run_batch(a, st, match_index, end_index, remaining_accounts) ==
    IF match_index >= end_index THEN Ok(st)
    ELSE
    Bind(st.tournament, LAMBDA t :
    Bind(get_pairing_for_match(t.participant_count - t.forfeits, t.matches_per_player,
                               t.randomness_seed, match_index, a.overflow_checks),
         LAMBDA pairing :
        IF pairing.kind = "Panic" THEN Err("Panic", a)
        ELSE IF pairing.kind = "None" THEN Err("InvalidMatch", a)
        ELSE
        Bind(pairing.pair[1], LAMBDA idx_a :
        Bind(pairing.pair[2], LAMBDA idx_b :
            IF ~(idx_a < Len(t.players)) \/ ~(idx_b < Len(t.players))
            THEN Err("InvalidMatch", a)
            ELSE
            Bind(t.players[idx_a + 1], LAMBDA player_a :
            Bind(t.players[idx_b + 1], LAMBDA player_b :
                IF player_a = DefaultPubkey \/ player_b = DefaultPubkey
                THEN run_batch(a, [st EXCEPT !.tournament.matches_completed = @ + 1],
                               match_index + 1, end_index, remaining_accounts)
                ELSE IF ~(player_a \in remaining_accounts)
                        \/ ~(player_b \in remaining_accounts)
                THEN Err("InvalidEntryAccount", a)
                ELSE IF ~st.entries[player_a].exists \/ ~st.entries[player_b].exists
                THEN Err("InvalidEntryAccount", a)
                ELSE IF st.entries[player_a].index # idx_a
                        \/ st.entries[player_b].index # idx_b
                THEN Err("InvalidEntryAccount", a)
                ELSE
                Bind(run_match(to_player_strategy(st.entries[player_a].strategy,
                                                  st.entries[player_a].bytecode),
                               to_player_strategy(st.entries[player_b].strategy,
                                                  st.entries[player_b].bytecode),
                               t.randomness_seed, match_index, t.participant_count),
                     LAMBDA result :
                    run_batch(a, match_recorded(st, player_a, player_b, idx_a, idx_b,
                                                result),
                              match_index + 1, end_index, remaining_accounts))))))))

\* an active slot whose strategy is still the sentinel
unrevealed_active_slot(t) ==
    \E i \in 1..Len(t.players) :
        t.players[i] # DefaultPubkey /\ t.strategies[i] = U8Max

\* run_matches with a batch of MATCHES_PER_TX matches whatever is left
run_matches_whole_batch(a, signer, remaining_accounts) ==
    LET t == a.tournament
        matches_to_run == MATCHES_PER_TX
    IN  IF ~a.config.exists \/ ~t.exists THEN Err("AccountNotInitialized", a)
        ELSE IF signer # a.config.operator THEN Err("Unauthorized", a)
        ELSE IF t.state # "Running" THEN Err("InvalidState", a)
        ELSE IF unrevealed_active_slot(t) THEN Err("UnrevealedStrategy", a)
        ELSE IF matches_to_run = 0 THEN Ok(track_operator_costs(a))
        ELSE run_batch(a, track_operator_costs(a), t.matches_completed,
                       t.matches_completed + matches_to_run, remaining_accounts)

\* run_matches: up to MATCHES_PER_TX matches
run_matches(a, signer, remaining_accounts) ==
    LET t == a.tournament
        matches_to_run == Min(MATCHES_PER_TX, t.matches_total - t.matches_completed)
    IN  IF ~a.config.exists \/ ~t.exists THEN Err("AccountNotInitialized", a)
        ELSE IF signer # a.config.operator THEN Err("Unauthorized", a)
        ELSE IF t.state # "Running" THEN Err("InvalidState", a)
        ELSE IF unrevealed_active_slot(t) THEN Err("UnrevealedStrategy", a)
        ELSE IF matches_to_run = 0 THEN Ok(track_operator_costs(a))
        ELSE run_batch(a, track_operator_costs(a), t.matches_completed,
                       t.matches_completed + matches_to_run, remaining_accounts)

\* the scores of the slots with a player, lowest first
sorted_scores_ascending(t) ==
    LET kept == SelectSeq(Tup([i \in 1..Len(t.scores) |-> i]),
                          LAMBDA i : t.players[i] # DefaultPubkey)
    IN  sort_unstable(Tup([j \in 1..Len(kept) |-> t.scores[kept[j]]]))

\* the scores of the slots with a player, `sort_by(|a, b| b.cmp(a))`
sorted_scores(t) ==
    LET kept == SelectSeq(Tup([i \in 1..Len(t.scores) |-> i]),
                          LAMBDA i : t.players[i] # DefaultPubkey)
        ascending == sort_unstable(Tup([j \in 1..Len(kept) |-> t.scores[kept[j]]]))
    IN  Tup([i \in 1..Len(ascending) |-> ascending[Len(ascending) + 1 - i]])

\* finalize_tournament without active players: the operator is reimbursed
\* and the rest is swept to the fees
finalize_empty(a) ==
    LET t == a.tournament
        min_balance == minimum_balance(tournament_space(Len(t.players)))
        transferable == saturating_sub(t.lamports, min_balance)
        operator_reimbursement == Min(t.operator_costs, transferable)
        remaining == saturating_sub(t.lamports - operator_reimbursement, min_balance)
    IN  [a EXCEPT !.tournament.winner_count = 0,
                  !.tournament.winner_pool = 0,
                  !.tournament.min_winning_score = 0,
                  !.tournament.lamports = @ - operator_reimbursement - remaining,
                  !.config.accumulated_fees = @ + remaining,
                  !.config.lamports = @ + remaining,
                  !.tournament.payout_started_at = a.now,
                  !.tournament.state = "Payout"]

\* finalize_tournament with active players: threshold, winners, fee, dust,
\* reimbursement; winner_count = 0 divides by zero
finalize_scored(a, active) ==
    LET t == a.tournament
        sorted == sorted_scores(t)
        target_winners == IF div_ceil(active, 4) > 1 THEN div_ceil(active, 4) ELSE 1
        min_winning_score == IF target_winners <= Len(sorted)
                             THEN sorted[target_winners] ELSE 0
        winner_count == Cardinality({i \in 1..Len(sorted) :
                                        sorted[i] >= min_winning_score})
        operator_reimbursement == t.operator_costs
        house_fee == (t.pool * t.house_fee_bps) \div 10000
        min_balance == minimum_balance(tournament_space(Len(t.players)))
        max_distributable == saturating_sub(t.lamports, min_balance)
        pool_after_deductions ==
            saturating_sub(saturating_sub(t.pool, house_fee), operator_reimbursement)
        winner_pool_raw == Min(pool_after_deductions, max_distributable)
        per_winner == winner_pool_raw \div winner_count
        dust == winner_pool_raw - per_winner * winner_count
        fee_total == house_fee + dust
        max_operator == saturating_sub(t.lamports - fee_total, min_balance)
        actual_reimbursement == Min(operator_reimbursement, max_operator)
    IN  IF winner_count = 0 THEN Err("Panic", a)
        ELSE Ok([a EXCEPT
                    !.tournament.min_winning_score = min_winning_score,
                    !.tournament.winner_count = winner_count,
                    !.config.accumulated_fees = @ + fee_total,
                    !.config.lamports = @ + fee_total,
                    !.tournament.lamports = @ - fee_total - actual_reimbursement,
                    !.tournament.winner_pool = per_winner * winner_count,
                    !.tournament.payout_started_at = a.now,
                    !.tournament.state = "Payout"])

\* a finalization that does not wait for the matches
finalize_tournament_unguarded(a, signer) ==
    LET t == a.tournament
        a1 == track_operator_costs(a)
        post_finalization_txs == t.entries_remaining + 1
        a2 == [a1 EXCEPT !.tournament.operator_costs =
                             @ + post_finalization_txs * a.config.operator_tx_fee]
        active == t.participant_count - t.forfeits
        paid == IF active = 0 THEN Ok(finalize_empty(a2)) ELSE finalize_scored(a2, active)
        next_id == paid.st.config.current_tournament_id + 1
        done == [paid.st EXCEPT
                    !.config.current_tournament_id = next_id,
                    !.next_tournament =
                        Tournament_created(next_id, paid.st.config.house_fee_bps,
                                           paid.st.config, a.now)]
    IN  IF ~a.config.exists \/ ~t.exists THEN Err("AccountNotInitialized", a)
        ELSE IF a.next_tournament.exists
                /\ a.next_tournament.id = a.config.current_tournament_id + 1
        THEN Err("AccountInUse", a)
        ELSE IF signer # a.config.operator THEN Err("Unauthorized", a)
        ELSE IF t.state # "Running" THEN Err("InvalidState", a)
        ELSE IF paid.err # "Ok" THEN Err(paid.err, a)
        ELSE Commit(a, done)

\* finalize_tournament: `init` of the next tournament account, the one of id
\* current_tournament_id + 1, fails when that account exists
finalize_tournament(a, signer) ==
    LET t == a.tournament
        a1 == track_operator_costs(a)
        post_finalization_txs == t.entries_remaining + 1
        a2 == [a1 EXCEPT !.tournament.operator_costs =
                             @ + post_finalization_txs * a.config.operator_tx_fee]
        active == t.participant_count - t.forfeits
        paid == IF active = 0 THEN Ok(finalize_empty(a2)) ELSE finalize_scored(a2, active)
        next_id == paid.st.config.current_tournament_id + 1
        done == [paid.st EXCEPT
                    !.config.current_tournament_id = next_id,
                    !.next_tournament =
                        Tournament_created(next_id, paid.st.config.house_fee_bps,
                                           paid.st.config, a.now)]
    IN  IF ~a.config.exists \/ ~t.exists THEN Err("AccountNotInitialized", a)
        ELSE IF a.next_tournament.exists
                /\ a.next_tournament.id = a.config.current_tournament_id + 1
        THEN Err("AccountInUse", a)
        ELSE IF signer # a.config.operator THEN Err("Unauthorized", a)
        ELSE IF t.state # "Running" THEN Err("InvalidState", a)
        ELSE IF ~(t.matches_completed >= t.matches_total) THEN Err("MatchesIncomplete", a)
        ELSE IF paid.err # "Ok" THEN Err(paid.err, a)
        ELSE Commit(a, done)

\* close_entry on the entry account of entry_key, with player_key as the
\* account that receives rent and payout
close_entry(a, signer, entry_key, player_key) ==
    LET t == a.tournament
        entry == a.entries[entry_key]
        winner == ~entry.paid_out /\ t.winner_count > 0
                  /\ entry.score >= t.min_winning_score
        expired == a.now >= t.payout_started_at + CLAIM_EXPIRY_SECONDS
        share == t.winner_pool \div t.winner_count
        max_transfer == saturating_sub(t.lamports,
                            minimum_balance(tournament_space(Len(t.players))))
        transfer == IF winner THEN Min(share, max_transfer) ELSE 0
    IN  IF ~a.config.exists \/ ~t.exists \/ ~entry.exists
        THEN Err("AccountNotInitialized", a)
        ELSE IF signer # a.config.operator THEN Err("Unauthorized", a)
        ELSE IF player_key # entry.player THEN Err("InvalidEntryAccount", a)
        ELSE IF t.state # "Payout" THEN Err("InvalidState", a)
        ELSE Commit(a, [a EXCEPT
                    !.tournament.lamports = @ - transfer,
                    !.config.accumulated_fees = IF winner /\ expired THEN @ + transfer ELSE @,
                    !.config.lamports = IF winner /\ expired THEN @ + transfer ELSE @,
                    !.tournament.claims_processed =
                        IF winner /\ ~expired THEN @ + 1 ELSE @,
                    !.tournament.entries_remaining = @ - 1,
                    !.entries[entry_key] = Entry_default])

\* close_tournament: the lamports go to the config account and the account
\* data is zeroed; the account is gone after the transaction
close_tournament(a, signer) ==
    LET t == a.tournament
        time_expired == a.now >= t.payout_started_at + TOURNAMENT_CLOSURE_SECONDS
        all_winners_claimed == t.claims_processed >= t.winner_count
    IN  IF ~a.config.exists \/ ~t.exists THEN Err("AccountNotInitialized", a)
        ELSE IF ~(signer = a.config.operator \/ signer = a.config.admin)
        THEN Err("Unauthorized", a)
        ELSE IF t.state # "Payout" THEN Err("InvalidState", a)
        ELSE IF ~(time_expired \/ all_winners_claimed)
        THEN Err("TournamentNotCloseable", a)
        ELSE IF t.entries_remaining # 0 THEN Err("EntriesRemaining", a)
        ELSE Ok([a EXCEPT !.config.lamports = @ + t.lamports,
                          !.config.accumulated_fees = @ + t.lamports,
                          !.tournament = Tournament_default])

(***************************************************************************)
(* State.  Three groups of variables: one call of validate_bytecode and    *)
(* one of execute_bytecode on the same program; feistel_permute applied to *)
(* the inputs of one domain in turn; and, for one tournament (n, K, seed), *)
(* generate_all_pairings and calls of get_pairing_for_match.  Each loop of *)
(* the source advances one pass per step.                                  *)
(***************************************************************************)
VARIABLES
    bytecode,           \* the program given to both calls
    opponent_history,   \* execute_bytecode's arguments
    my_history,
    round,
    scan,               \* validate_bytecode: pc, has_terminal, result
    scanned,            \* the offsets at which validate_bytecode read an opcode
    vm,                 \* execute_inner: stack, sp, pc, fuel, rng, result
    move,               \* the value execute_bytecode returned, "Pending" before
    domain_size,        \* feistel_permute's arguments and loop state
    idx,
    walk,
    outputs,            \* the values returned for the inputs before idx
    round_keys,         \* the six Feistel round keys
    participant_count,  \* the arguments of the pairing functions
    matches_per_player,
    seed,
    debug_assertions,   \* whether the build evaluates debug_assert!
    sel,                \* select_offsets inside generate_all_pairings
    gen,                \* generate_all_pairings: next index, pairs, status
    lookup,             \* the last call of get_pairing_for_match
    un,                 \* unrank_pair: rank, build, loop position, b, result
    game,               \* run_match: arguments, locals, position, result
    ev,                 \* execute_strategy: arguments, position, result
    sub,                \* for_round: the generator and the sub-streams returned
    arena               \* the on-chain program: config, tournament, entries, clock

vmVars == <<bytecode, opponent_history, my_history, round, scan, scanned, vm, move>>
feVars == <<domain_size, idx, walk, outputs>>
pgVars == <<participant_count, matches_per_player, seed, debug_assertions, sel,
            gen, lookup>>
unVars == <<un>>
gameVars == <<game>>
evVars == <<ev>>
subVars == <<sub>>
arenaVars == <<arena>>
vars == <<vmVars, feVars, round_keys, pgVars, unVars, gameVars, evVars,
          subVars, arenaVars>>

Seed42 == [i \in 1..32 |-> 42]
Seed7  == [i \in 1..32 |-> 7]

\* `let mut rng = SeededRng::new(&[42u8; 32], 0)` of the tests, and a second
\* generator state
RngA == SeededRng_new(Seed42, U64Zero)
RngB == SeededRng_new(Seed7, U64FromInt(3))

(***************************************************************************)
(* The interpreter's group: programs and arguments.                        *)
(***************************************************************************)
\* the built-in strategies that have a bytecode encoding in the tests
ParityBases ==
    {"AlwaysCooperate", "AlwaysDefect", "TitForTat", "GrimTrigger",
     "SuspiciousTitForTat", "TitForTwoTats", "Pavlov"}

\* the encodings of test_parity_*
Encoding(base) ==
    CASE base = "AlwaysCooperate" -> <<COOP>>
      [] base = "AlwaysDefect" -> <<DEFECT>>
      [] base = "TitForTat" -> <<OPP_LAST, RETURN>>
      [] base = "GrimTrigger" ->
            <<OPP_DEFECTS, PUSH, 0, GT, JMP_FWD_IF, 1, COOP, DEFECT>>
      [] base = "SuspiciousTitForTat" ->
            <<ROUND, PUSH, 0, EQ, JMP_FWD_IF, 2, OPP_LAST, RETURN, DEFECT>>
      [] base = "TitForTwoTats" ->
            <<ROUND, PUSH, 2, LT, JMP_FWD_IF, 8, PUSH, 0, OPP_N, PUSH, 1, OPP_N,
              AND, RETURN, COOP>>
      [] base = "Pavlov" ->
            <<ROUND, PUSH, 0, EQ, JMP_FWD_IF, 9, SCORE_LAST, PUSH, 3, LT,
              JMP_FWD_IF, 3, MY_LAST, RETURN, MY_LAST, NOT, RETURN, COOP>>

\* the longest history of the parity runs, and the longest generated program
MaxRound == 3
MaxGenLen == 3

Histories(n) == [1..n -> Move]

Scenario(b, o, m, r, g) ==
    [bytecode |-> b, opponent_history |-> o, my_history |-> m, round |-> r,
     rng |-> g]

\* every encoding at every round r <= MaxRound with every pair of histories
\* of length r
ParityScenarios ==
    UNION {{Scenario(Encoding(base), o, m, r, RngA) :
                base \in ParityBases, o \in Histories(r), m \in Histories(r)} :
           r \in 0..MaxRound}

\* the programs of the tests of vm.rs and one program per opcode
HandPrograms ==
    {<<>>, <<RETURN>>, <<255>>, <<255, COOP>>, <<PUSH>>, <<PUSH, 5>>,
     <<PUSH, 0, RETURN>>, <<PUSH, 1, RETURN>>, <<JMP_FWD, 255, COOP>>,
     <<PUSH, 5, PUSH, 3, ADD>>, <<PUSH, 200, PUSH, 100, ADD, RETURN>>,
     <<PUSH, 1, PUSH, 2, SUB, RETURN>>, <<PUSH, 16, PUSH, 16, MUL, RETURN>>,
     <<PUSH, 2, PUSH, 1, GT, RETURN>>, <<PUSH, 0, PUSH, 1, OR, RETURN>>,
     <<PUSH, 1, DUP, AND, RETURN>>, <<DUP>>, <<ADD, COOP>>,
     <<PUSH, 1, ADD, DEFECT>>, <<PUSH, 0, MY_N, RETURN>>,
     <<PUSH, 1, OPP_N, RETURN>>, <<MY_DEFECTS, OPP_DEFECTS, EQ, RETURN>>,
     <<MY_LAST, NOT, RETURN>>, <<SCORE_LAST, PUSH, 3, LT, RETURN>>,
     <<RAND, PUSH, 50, LT, RETURN>>, <<RAND, RAND, SUB, RETURN>>,
     <<ROUND, RETURN>>, <<JMP_FWD, 1, COOP, DEFECT>>, <<JMP_FWD, 0>>,
     <<JMP_FWD_IF, 0, COOP>>, <<PUSH, 1, JMP_FWD_IF>>,
     <<JMP_FWD, 1, PUSH, 255, COOP>>, <<JMP_FWD, 2, RETURN, PUSH, 1>>,
     <<PUSH, 1, JMP_FWD_IF, 1, PUSH, JMP_FWD, 0, DEFECT>>}

HandContexts ==
    {<<o, m, r, g>> :
        o \in {<<>>, <<Defect>>, <<Cooperate, Defect>>},
        m \in {<<>>, <<Defect>>, <<Defect, Cooperate>>},
        r \in {0, 1, 255},
        g \in {RngA, RngB}}

\* b repeated n times
Repeat(b, n) == Tup([i \in 1..(n * Len(b)) |-> b[((i - 1) % Len(b)) + 1]])

\* programs at the limits: of the stack, of the fuel and of the length
LimitPrograms ==
    {Repeat(<<PUSH, 1>>, STACK_SIZE + 1) \o <<RETURN>>,
     Repeat(<<PUSH, 1>>, STACK_SIZE) \o <<RETURN>>,
     Repeat(<<PUSH, 1>>, STACK_SIZE) \o <<DUP, RETURN>>,
     <<PUSH, 1>> \o Repeat(<<NOT>>, MAX_FUEL - 1) \o <<RETURN>>,
     <<PUSH, 1>> \o Repeat(<<NOT>>, MAX_FUEL - 2) \o <<RETURN>>,
     <<PUSH, 1>> \o Repeat(<<NOT>>, MAX_FUEL - 1) \o <<DEFECT>>,
     <<PUSH, 0>> \o Repeat(<<NOT>>, MAX_FUEL - 1) \o <<RETURN>>,
     <<PUSH, 1>> \o Repeat(<<NOT>>, MAX_FUEL - 2) \o <<DEFECT>>,
     <<PUSH, 1>> \o Repeat(<<NOT>>, MAX_BYTECODE_LEN - 3) \o <<RETURN>>,
     Repeat(<<PUSH>>, MAX_BYTECODE_LEN + 1),
     Repeat(<<COOP>>, MAX_BYTECODE_LEN + 1),
     Repeat(<<ROUND, NOT>>, MAX_BYTECODE_LEN \div 2 - 1) \o <<RETURN, COOP>>}

\* the bytes of the generated programs: a terminal, the three 2-byte opcodes
\* (1 is also a jump offset), a 1-byte opcode and the first unknown opcode
GenBytes == {COOP, PUSH, NOT, JMP_FWD, JMP_FWD_IF, RETURN + 1}

GenPrograms == UNION {[1..n -> GenBytes] : n \in 0..MaxGenLen}

VmScenarios ==
    ParityScenarios
    \cup {Scenario(b, c[1], c[2], c[3], c[4]) : b \in HandPrograms, c \in HandContexts}
    \cup {Scenario(b, <<Defect>>, <<>>, 1, RngA) : b \in LimitPrograms \cup GenPrograms}

\* validate_bytecode has not been called
NotStarted == [pc |-> 0, has_terminal |-> FALSE,
               res |-> [kind |-> "NotStarted", offset |-> -1, opcode |-> -1]]

\* the values of the group when another group runs: both calls returned
VmIdle ==
    /\ bytecode = <<>>
    /\ opponent_history = <<>>
    /\ my_history = <<>>
    /\ round = 0
    /\ scan = validate_start(<<>>)
    /\ scanned = {}
    /\ vm = [VmStart(U64Zero) EXCEPT !.ret = "None"]
    /\ move = Cooperate

FeIdle ==
    /\ domain_size = 0
    /\ idx = 0
    /\ walk = [val |-> 0, iter |-> 0, res |-> 0]
    /\ outputs = <<>>

PgIdle ==
    /\ participant_count = 0
    /\ matches_per_player = 0
    /\ seed = Seed42
    /\ debug_assertions = FALSE
    /\ sel = [kind |-> "Ok", fl |-> [j |-> 1, rng |-> U64Zero, result |-> <<>>],
              offsets |-> <<>>]
    /\ gen = [i |-> 0, pairs |-> <<>>, status |-> "Done"]
    /\ lookup = [match_index |-> -1, result |-> NonePair]

UnIdle == un = [rank |-> 0, overflow_checks |-> FALSE, at |-> "Idle", b |-> 0,
                pair |-> <<>>]

GameIdle == game = [at |-> "Idle"]

EvIdle == ev = [at |-> "Idle"]

SubIdle == sub = [at |-> "Idle"]

ArenaIdle == arena = [at |-> "Idle"]

InitVm ==
    /\ \E s \in VmScenarios :
          /\ bytecode = s.bytecode
          /\ opponent_history = s.opponent_history
          /\ my_history = s.my_history
          /\ round = s.round
          /\ vm = VmStart(s.rng)
    /\ scan = NotStarted
    /\ scanned = {}
    /\ move = "Pending"
    /\ FeIdle
    /\ round_keys = <<>>
    /\ PgIdle
    /\ UnIdle
    /\ GameIdle
    /\ EvIdle
    /\ SubIdle
    /\ ArenaIdle

\* validate_bytecode is called: the two length checks
ValidateCall ==
    /\ scan = NotStarted
    /\ scan' = validate_start(bytecode)
    /\ UNCHANGED <<bytecode, opponent_history, my_history, round, scanned, vm, move>>
    /\ UNCHANGED <<feVars, round_keys, pgVars, unVars, gameVars, evVars, subVars,
              arenaVars>>

\* one pass of the scan of validate_bytecode, or its return after the loop
ValidateStep ==
    /\ scan.res = VScanning
    /\ scan' = validate_step(bytecode, scan)
    /\ scanned' = IF scan.pc < Len(bytecode) THEN scanned \cup {scan.pc} ELSE scanned
    /\ UNCHANGED <<bytecode, opponent_history, my_history, round, vm, move>>
    /\ UNCHANGED <<feVars, round_keys, pgVars, unVars, gameVars, evVars, subVars,
              arenaVars>>

\* one pass of the loop of execute_inner; when it returns, execute_bytecode
\* returns the move
ExecuteStep ==
    /\ scan # NotStarted
    /\ scan.res # VScanning
    /\ vm.ret = "Running"
    /\ vm' = vm_step(bytecode, opponent_history, my_history, round, vm)
    /\ move' = IF vm'.ret = "Running" THEN move ELSE unwrap_or_cooperate(vm'.ret)
    /\ UNCHANGED <<bytecode, opponent_history, my_history, round, scan, scanned>>
    /\ UNCHANGED <<feVars, round_keys, pgVars, unVars, gameVars, evVars, subVars,
              arenaVars>>

NextVm == ValidateCall \/ ValidateStep \/ ExecuteStep

SpecVm == InitVm /\ [][NextVm]_vars

(***************************************************************************)
(* The permutation's group: feistel_permute on the inputs idx, idx + 1,    *)
(* ... of one domain, one pass of the cycle walk per step.                 *)
(***************************************************************************)
\* the largest domain whose inputs are all permuted
MaxDomain == 12

\* round keys: those of two seeds, six zero keys, and keys whose first
\* round adds to the right half and whose other rounds add nothing
WalkKeys == <<U64FromInt(66), U64Zero, U64Zero, U64Zero, U64Zero, U64Zero>>
KeySets ==
    {derive_feistel_keys(Seed42), derive_feistel_keys(Seed7),
     <<U64Zero, U64Zero, U64Zero, U64Zero, U64Zero, U64Zero>>, WalkKeys}

\* the domains and first inputs: every input of the domains up to
\* MaxDomain, and the last input of a domain of 1002 * 1002 - 2002 values
FeistelScenarios ==
    {[domain_size |-> d, idx |-> 0, round_keys |-> k] :
        d \in 1..MaxDomain, k \in KeySets}
    \cup {[domain_size |-> 1002002, idx |-> 1002001, round_keys |-> WalkKeys]}

InitFeistel ==
    /\ \E s \in FeistelScenarios :
          /\ domain_size = s.domain_size
          /\ idx = s.idx
          /\ round_keys = s.round_keys
    /\ walk = [val |-> 0, iter |-> 0, res |-> 0]
    /\ outputs = <<>>
    /\ VmIdle
    /\ PgIdle
    /\ UnIdle
    /\ GameIdle
    /\ EvIdle
    /\ SubIdle
    /\ ArenaIdle

\* feistel_permute is called on idx: the early return, or the start of the
\* cycle walk
PermuteCall ==
    /\ walk.res # Walking
    /\ idx < domain_size
    /\ IF domain_size <= 1
       THEN /\ outputs' = Append(outputs, 0)
            /\ idx' = idx + 1
            /\ walk' = walk
       ELSE /\ walk' = WalkStart(idx)
            /\ UNCHANGED <<idx, outputs>>
    /\ UNCHANGED <<domain_size, round_keys, vmVars, pgVars, unVars, gameVars, evVars,
              subVars, arenaVars>>

\* one pass of the loop of feistel_permute; a pass that returns is followed
\* by the call on the next input
PermutePass ==
    /\ walk.res = Walking
    /\ walk' = feistel_walk_step(walk, domain_size, isqrt_ceil(domain_size),
                                 round_keys)
    /\ IF walk'.res = Walking
       THEN UNCHANGED <<idx, outputs>>
       ELSE /\ outputs' = Append(outputs, walk'.res)
            /\ idx' = idx + 1
    /\ UNCHANGED <<domain_size, round_keys, vmVars, pgVars, unVars, gameVars, evVars,
              subVars, arenaVars>>

NextFeistel == PermuteCall \/ PermutePass

SpecFeistel == InitFeistel /\ [][NextFeistel]_vars

(***************************************************************************)
(* The pairing group: one tournament (n, K, seed), generate_all_pairings   *)
(* one element per step, then calls of get_pairing_for_match.  round_keys  *)
(* is derive_feistel_keys(seed), which both functions compute before their *)
(* first use of feistel_permute.                                           *)
(***************************************************************************)
\* the largest n and K of the tournaments enumerated in full, and the
\* largest match index looked up
MaxN == 7
MaxK == 6
MaxLookup == 40

\* (n, K): every pair up to the bounds, two larger circular tournaments,
\* and two with K above 100 (K odd and K even)
PairingSizes ==
    {<<n, k>> : n \in 0..MaxN, k \in 0..MaxK}
    \cup {<<12, 6>>, <<20, 8>>, <<103, 101>>, <<105, 102>>}

InitPairing ==
    /\ \E nk \in PairingSizes :
          /\ participant_count = nk[1]
          /\ matches_per_player = nk[2]
    /\ seed \in {Seed42, Seed7}
    /\ debug_assertions \in BOOLEAN
    /\ round_keys = derive_feistel_keys(seed)
    /\ sel = [kind |-> "Ok", fl |-> [j |-> 1, rng |-> U64Zero, result |-> <<>>],
              offsets |-> <<>>]
    /\ gen = [i |-> 0, pairs |-> <<>>, status |-> "NotStarted"]
    /\ lookup = [match_index |-> -1, result |-> NonePair]
    /\ VmIdle
    /\ FeIdle
    /\ UnIdle
    /\ GameIdle
    /\ EvIdle
    /\ SubIdle
    /\ ArenaIdle

\* generate_all_pairings is called: the two early returns, then the regime;
\* in the circular regime select_offsets is entered
GenerateCall ==
    /\ gen.status = "NotStarted"
    /\ LET n == participant_count
           k == matches_per_player
       IN  IF n < 2 \/ calculate_match_count_inner(n, k) = 0
           THEN gen' = [gen EXCEPT !.status = "Done"] /\ sel' = sel
           ELSE IF n <= k + 1
           THEN gen' = [gen EXCEPT !.status = "Mapping"] /\ sel' = sel
           ELSE IF debug_assertions
                   /\ Min(div_ceil(k, 2), available_offsets(n)) > OFFSET_CAPACITY
           THEN /\ gen' = [gen EXCEPT !.status = "Panic"]
                /\ sel' = [sel EXCEPT !.kind = "Panic"]
           ELSE /\ gen' = [gen EXCEPT !.status = "Selecting"]
                /\ sel' = [sel EXCEPT
                             !.fl = FloydStart(n, offsets_selected(n, k), seed)]
    /\ UNCHANGED <<participant_count, matches_per_player, seed, debug_assertions,
                   lookup, round_keys, vmVars, feVars, unVars, gameVars, evVars,
                   subVars, arenaVars>>

\* one pass of the loop of select_offsets, or the sort and the return
SelectStep ==
    /\ gen.status = "Selecting"
    /\ IF sel.fl.j > available_offsets(participant_count)
       THEN /\ sel' = [sel EXCEPT !.offsets = sort_unstable(sel.fl.result)]
            /\ gen' = [gen EXCEPT !.status = "Mapping"]
       ELSE /\ sel' = [sel EXCEPT !.fl = floyd_step(sel.fl)]
            /\ gen' = gen
    /\ UNCHANGED <<participant_count, matches_per_player, seed, debug_assertions,
                   lookup, round_keys, vmVars, feVars, unVars, gameVars, evVars,
                   subVars, arenaVars>>

\* one element of `(0..total).filter_map(..)`, or the collect after the last
GenerateStep ==
    /\ gen.status = "Mapping"
    /\ LET n == participant_count
           k == matches_per_player
           total == calculate_match_count_inner(n, k)
           canonical == feistel_permute(gen.i, total, round_keys)
           pair == pair_of_canonical(canonical, n, k, sel)
       IN  IF gen.i >= total THEN gen' = [gen EXCEPT !.status = "Done"]
           ELSE IF canonical = NoneU32 THEN gen' = [gen EXCEPT !.i = gen.i + 1]
           ELSE IF pair.kind = "Panic" THEN gen' = [gen EXCEPT !.status = "Panic"]
           ELSE gen' = [gen EXCEPT !.i = gen.i + 1,
                                   !.pairs = Append(gen.pairs, pair.pair)]
    /\ UNCHANGED <<participant_count, matches_per_player, seed, debug_assertions,
                   sel, lookup, round_keys, vmVars, feVars, unVars, gameVars, evVars,
                   subVars, arenaVars>>

GenerateReturned == gen.status \in {"Done", "Panic"}

\* the call of get_pairing_for_match that follows the enumeration (one call
\* per behaviour: the function reads nothing that an earlier call wrote)
Lookup(match_index) ==
    /\ GenerateReturned
    /\ lookup.match_index = -1
    /\ lookup' = [match_index |-> match_index,
                  result |-> get_pairing_with_keys(participant_count,
                                 matches_per_player, seed, round_keys,
                                 match_index, debug_assertions)]
    /\ UNCHANGED <<participant_count, matches_per_player, seed, debug_assertions,
                   sel, gen, round_keys, vmVars, feVars, unVars, gameVars, evVars,
                   subVars, arenaVars>>

\* the match indices looked up: every index below the count and two beyond
LookupIndices ==
    0..Min(calculate_match_count(participant_count, matches_per_player) + 1,
           MaxLookup)

NextPairing ==
    \/ GenerateCall
    \/ SelectStep
    \/ GenerateStep
    \/ \E match_index \in LookupIndices : Lookup(match_index)

SpecPairing == InitPairing /\ [][NextPairing]_vars

(***************************************************************************)
(* select_offsets under every sequence of generator outcomes: each draw    *)
(* `rng.next_range(j) + 1` is any value of [1, j].                          *)
(***************************************************************************)
MaxFloydN == 11

\* (n, K) of the circular regime
FloydSizes ==
    {nk \in (3..MaxFloydN) \X (1..MaxFloydN) : nk[1] > nk[2] + 1}

InitFloyd ==
    /\ \E nk \in FloydSizes :
          /\ participant_count = nk[1]
          /\ matches_per_player = nk[2]
          /\ sel = [kind |-> "Ok",
                    fl |-> [j |-> available_offsets(nk[1])
                                     - offsets_selected(nk[1], nk[2]) + 1,
                            rng |-> U64Zero, result |-> <<>>],
                    offsets |-> <<>>]
    /\ seed = Seed42
    /\ debug_assertions = FALSE
    /\ gen = [i |-> 0, pairs |-> <<>>, status |-> "Selecting"]
    /\ lookup = [match_index |-> -1, result |-> NonePair]
    /\ round_keys = <<>>
    /\ VmIdle
    /\ FeIdle
    /\ UnIdle
    /\ GameIdle
    /\ EvIdle
    /\ SubIdle
    /\ ArenaIdle

\* one pass of the loop of select_offsets, drawing t
FloydPass(t) ==
    /\ gen.status = "Selecting"
    /\ sel.fl.j <= available_offsets(participant_count)
    /\ sel' = [sel EXCEPT !.fl = floyd_place(sel.fl, t, sel.fl.rng)]
    /\ UNCHANGED <<participant_count, matches_per_player, seed, debug_assertions,
                   gen, lookup, round_keys, vmVars, feVars, unVars, gameVars, evVars,
                   subVars, arenaVars>>

\* the sort and the return of select_offsets
FloydReturn ==
    /\ gen.status = "Selecting"
    /\ sel.fl.j > available_offsets(participant_count)
    /\ sel' = [sel EXCEPT !.offsets = sort_unstable(sel.fl.result)]
    /\ gen' = [gen EXCEPT !.status = "Selected"]
    /\ UNCHANGED <<participant_count, matches_per_player, seed, debug_assertions,
                   lookup, round_keys, vmVars, feVars, unVars, gameVars, evVars,
                   subVars, arenaVars>>

NextFloyd ==
    \/ \E t \in 1..sel.fl.j : FloydPass(t)
    \/ FloydReturn

SpecFloyd == InitFloyd /\ [][NextFloyd]_vars

(***************************************************************************)
(* unrank_pair on one rank, in a build with or without overflow checks.    *)
(* un.at is the position in the function: "Down" and "Up" are its two      *)
(* correction loops, "Done" the return, "Panic" an arithmetic abort.       *)
(***************************************************************************)
MaxRank == 120

\* C(65536, 2): the first rank whose pair has b = 65536
FirstWideRank == 2147450880

UnrankRanks == (0..MaxRank) \cup {FirstWideRank - 1, FirstWideRank}

InitUnrank ==
    /\ \E r \in UnrankRanks, checks \in BOOLEAN :
          un = [rank |-> r, overflow_checks |-> checks, at |-> "Call", b |-> 0,
                pair |-> <<>>]
    /\ round_keys = <<>>
    /\ VmIdle
    /\ FeIdle
    /\ PgIdle
    /\ GameIdle
    /\ EvIdle
    /\ SubIdle
    /\ ArenaIdle

\* the call: the Newton estimate of b
UnrankCall ==
    /\ un.at = "Call"
    /\ un' = [un EXCEPT !.b = unrank_estimate(un.rank), !.at = "Down"]
    /\ UNCHANGED <<vmVars, feVars, round_keys, pgVars, gameVars, evVars, subVars,
              arenaVars>>

\* `while b > 0 && b * (b - 1) / 2 > rank { b -= 1; }`: one test of the
\* condition
UnrankDown ==
    /\ un.at = "Down"
    /\ LET p == half_product_u32(un.b, un.b - 1)
       IN  un' = IF un.b = 0 THEN [un EXCEPT !.at = "Up"]
                 ELSE IF p.overflow /\ un.overflow_checks
                 THEN [un EXCEPT !.at = "Panic"]
                 ELSE IF p.half > un.rank THEN [un EXCEPT !.b = un.b - 1]
                 ELSE [un EXCEPT !.at = "Up"]
    /\ UNCHANGED <<vmVars, feVars, round_keys, pgVars, gameVars, evVars, subVars,
              arenaVars>>

\* `while (b + 1) * b / 2 <= rank { b += 1; }`: one test of the condition;
\* after the last, `let a = rank - b * (b - 1) / 2; (a, b)`
UnrankUp ==
    /\ un.at = "Up"
    /\ LET p == half_product_u32(un.b + 1, un.b)
           q == half_product_u32(un.b, un.b - 1)
       IN  un' = IF p.overflow /\ un.overflow_checks
                 THEN [un EXCEPT !.at = "Panic"]
                 ELSE IF p.half <= un.rank THEN [un EXCEPT !.b = un.b + 1]
                 ELSE IF un.overflow_checks
                         /\ (un.b = 0 \/ q.overflow \/ q.half > un.rank)
                 THEN [un EXCEPT !.at = "Panic"]
                 ELSE [un EXCEPT !.at = "Done",
                                 !.pair = <<unrank_remainder(un.rank, q.half), un.b>>]
    /\ UNCHANGED <<vmVars, feVars, round_keys, pgVars, gameVars, evVars, subVars,
              arenaVars>>

NextUnrank == UnrankCall \/ UnrankDown \/ UnrankUp

SpecUnrank == InitUnrank /\ [][NextUnrank]_vars

(***************************************************************************)
(* run_match on one pair of strategies.  game.at is the position in the    *)
(* function: "Count" is determine_round_count, "Rounds" the loop over the  *)
(* rounds, "Done" the return.  game.rng_a and game.rng_b keep the          *)
(* generators handed to the players, game.draws_a and game.draws_b whether *)
(* the player drew from the one it was handed.                             *)
(***************************************************************************)
\* `RAND PUSH 50 LT JMP_FWD_IF 1 DEFECT COOP`: cooperate when the draw is
\* below 50
CoinFlip == <<RAND, PUSH, 50, LT, JMP_FWD_IF, 1, DEFECT, COOP>>

MatchStrategies ==
    {Builtin(Strategy_new("TitForTat")), Builtin(Strategy_new("Random")),
     Builtin(Strategy_new("Gradual")), Custom(<<OPP_LAST, RETURN>>),
     Custom(CoinFlip), Builtin(Strategy_new("GrimTrigger")),
     Builtin(Strategy_new("Pavlov")), Builtin(Strategy_new("AlwaysDefect"))}

\* seed and match_index; the round counts they give are 20 and 10 (the
\* minimum), 26 and 16, 50 and 30 (the maximum)
MatchSeeds == {<<Seed42, 0>>, <<Seed42, 2>>, <<Seed7, 5>>}

MatchSizes == {2, 1000, 1001}

InitMatch ==
    /\ \E a \in MatchStrategies, b \in MatchStrategies, sm \in MatchSeeds,
          n \in MatchSizes :
          game = [at |-> "Call", strategy_a |-> a, strategy_b |-> b,
                  seed |-> sm[1], match_index |-> sm[2], participant_count |-> n]
    /\ round_keys = <<>>
    /\ VmIdle
    /\ FeIdle
    /\ PgIdle
    /\ UnIdle
    /\ EvIdle
    /\ SubIdle
    /\ ArenaIdle

\* run_match is called: the match generator and the tier
MatchCall ==
    /\ game.at = "Call"
    /\ game' = [at |-> "Count",
                strategy_a |-> game.strategy_a, strategy_b |-> game.strategy_b,
                seed |-> game.seed, match_index |-> game.match_index,
                participant_count |-> game.participant_count,
                rng |-> SeededRng_new(game.seed, U64FromInt(game.match_index)),
                round_config |-> round_config(game.participant_count),
                round_count |-> round_config(game.participant_count).min_rounds,
                round |-> 0, history_a |-> <<>>, history_b |-> <<>>,
                rounds |-> <<>>, total_a |-> 0, total_b |-> 0,
                rng_a |-> <<>>, rng_b |-> <<>>, draws_a |-> <<>>, draws_b |-> <<>>]
    /\ UNCHANGED <<vmVars, feVars, round_keys, pgVars, unVars, evVars, subVars,
              arenaVars>>

\* determine_round_count: one pass of its loop
DetermineStep ==
    /\ game.at = "Count"
    /\ game' = Bind(determine_step(game.rng, game.round_config, game.round_count),
                    LAMBDA d : [game EXCEPT !.rng = d.rng, !.round_count = d.rounds,
                                    !.at = IF d.again THEN "Count" ELSE "Rounds"])
    /\ UNCHANGED <<vmVars, feVars, round_keys, pgVars, unVars, evVars, subVars,
              arenaVars>>

\* one round of the match
PlayRound ==
    /\ game.at = "Rounds"
    /\ game.round < game.round_count
    /\ game' = play_round(game)
    /\ UNCHANGED <<vmVars, feVars, round_keys, pgVars, unVars, evVars, subVars,
              arenaVars>>

\* the loop is over: the MatchResult is returned
MatchReturn ==
    /\ game.at = "Rounds"
    /\ game.round >= game.round_count
    /\ game' = [game EXCEPT !.at = "Done"]
    /\ UNCHANGED <<vmVars, feVars, round_keys, pgVars, unVars, evVars, subVars,
              arenaVars>>

NextMatch == MatchCall \/ DetermineStep \/ PlayRound \/ MatchReturn

SpecMatch == InitMatch /\ [][NextMatch]_vars

(***************************************************************************)
(* execute_strategy on one set of arguments.  The two histories are drawn  *)
(* independently, so they may differ in length.                            *)
(***************************************************************************)
MaxEvalLen == 2
MaxPolicyLen == 3

HistoriesUpTo(n) == UNION {Histories(l) : l \in 0..n}

EvalParams ==
    {StrategyParams_default,
     [StrategyParams_default EXCEPT !.forgiveness = 50],
     [StrategyParams_default EXCEPT !.forgiveness = 100, !.retaliation_delay = 1],
     [StrategyParams_default EXCEPT !.noise_tolerance = 1, !.retaliation_delay = 2],
     [StrategyParams_default EXCEPT !.initial_moves = 5, !.cooperate_bias = 0],
     [StrategyParams_default EXCEPT !.cooperate_bias = 100]}

\* the rounds tried with a parameter set: the round of the own history, and
\* rounds on both sides of the initial_moves window when the mask is set
EvalRounds(q, m) == IF q.initial_moves = 0 THEN {Len(m)} ELSE {0, 1, 2, 8}

\* every strategy with every parameter set on short histories, and the three
\* history-counting policies with default parameters on longer ones
EvalScenarios ==
    UNION {{[strategy |-> [base |-> b, params |-> q], opponent_history |-> o,
             my_history |-> m, round |-> r] : r \in EvalRounds(q, m)} :
        b \in StrategyBase, q \in EvalParams, o \in HistoriesUpTo(MaxEvalLen),
        m \in HistoriesUpTo(MaxEvalLen)}
    \cup {[strategy |-> Strategy_new(b), opponent_history |-> o,
           my_history |-> m, round |-> MaxPolicyLen] :
        b \in {"GrimTrigger", "Gradual", "Pavlov"},
        o \in HistoriesUpTo(MaxPolicyLen), m \in HistoriesUpTo(MaxPolicyLen)}

InitStrategy ==
    /\ \E c \in EvalScenarios :
          ev = [at |-> "Call", strategy |-> c.strategy,
                opponent_history |-> c.opponent_history,
                my_history |-> c.my_history, round |-> c.round, rng |-> RngA]
    /\ round_keys = <<>>
    /\ VmIdle
    /\ FeIdle
    /\ PgIdle
    /\ UnIdle
    /\ GameIdle
    /\ SubIdle
    /\ ArenaIdle

\* the call of execute_strategy: its move and the generator after it, or the
\* abort
ExecuteStrategy ==
    /\ ev.at = "Call"
    /\ ev' = Bind(execute_strategy(ev.strategy, ev.opponent_history,
                                   ev.my_history, ev.round, ev.rng),
                  LAMBDA res :
                    [at |-> IF res.move = Panic THEN "Panic" ELSE "Returned",
                     strategy |-> ev.strategy,
                     opponent_history |-> ev.opponent_history,
                     my_history |-> ev.my_history, round |-> ev.round,
                     rng |-> res.rng, move |-> res.move])
    /\ UNCHANGED <<vmVars, feVars, round_keys, pgVars, unVars, gameVars, subVars,
              arenaVars>>

NextStrategy == ExecuteStrategy

SpecStrategy == InitStrategy /\ [][NextStrategy]_vars

(***************************************************************************)
(* for_round on one generator, called with every round index in turn.      *)
(* for_round takes `&self`: sub.rng is the generator it is called on,      *)
(* sub.streams the generators it returned, sub.origin the generator as it  *)
(* was before the first call.                                              *)
(***************************************************************************)
\* `round: u8`
RoundIndexMax == 255

U64Ones == <<255, 255, 255, 255, 255, 255, 255, 255>>

\* the generators for_round is called on: the all-zero state, which xorshift64
\* maps to itself (it is also SeededRng::new(&[42u8; 32], 0)), the all-one
\* state, and two match generators
StreamStates ==
    {U64Zero, U64Ones, SeededRng_new(Seed42, U64FromInt(2)),
     SeededRng_new(Seed7, U64FromInt(5))}

InitRounds ==
    /\ \E g \in StreamStates :
          sub = [at |-> "Call", rng |-> g, origin |-> g, round |-> 0,
                 streams |-> <<>>]
    /\ round_keys = <<>>
    /\ VmIdle
    /\ FeIdle
    /\ PgIdle
    /\ UnIdle
    /\ GameIdle
    /\ EvIdle
    /\ ArenaIdle

\* `self.for_round(round)` with the next round index
ForRoundCall ==
    /\ sub.at = "Call"
    /\ sub.round <= RoundIndexMax
    /\ sub' = [sub EXCEPT !.streams = Append(@, for_round(sub.rng, sub.round)),
                          !.round = @ + 1]
    /\ UNCHANGED <<vmVars, feVars, round_keys, pgVars, unVars, gameVars, evVars,
              arenaVars>>

\* every round index was used
ForRoundDone ==
    /\ sub.at = "Call"
    /\ sub.round > RoundIndexMax
    /\ sub' = [sub EXCEPT !.at = "Done"]
    /\ UNCHANGED <<vmVars, feVars, round_keys, pgVars, unVars, gameVars, evVars,
              arenaVars>>

NextRounds == ForRoundCall \/ ForRoundDone

SpecRounds == InitRounds /\ [][NextRounds]_vars

(***************************************************************************)
(* The instructions of the on-chain program on one tournament, from the    *)
(* accounts not yet created.  The clock counts from 0; Tick moves it by a  *)
(* second or, in the Payout phase, by the claim expiry: every earlier      *)
(* deadline is within MaxTicks seconds.  The admin updates the config      *)
(* while the tournament is in Registration.  A tournament has one slot     *)
(* more than there are players: a refunded player can enter again.         *)
(***************************************************************************)
MaxTicks == 2
MaxOperatorCosts == 4

InitializeChoices ==
    {[operator |-> OperatorKey, stake |-> 1000, min_participants |-> m,
      max_participants |-> MaxPlayers + 1, registration_duration |-> 1,
      matches_per_player |-> 2, reveal_duration |-> 0] : m \in {2, 3}}

NoUpdate ==
    [operator |-> NoneOpt, house_fee_bps |-> NoneOpt, stake |-> NoneOpt,
     min_participants |-> NoneOpt, max_participants |-> NoneOpt,
     registration_duration |-> NoneOpt, matches_per_player |-> NoneOpt,
     reveal_duration |-> NoneOpt, operator_tx_fee |-> NoneOpt]

UpdateChoices ==
    {[NoUpdate EXCEPT !.operator_tx_fee = Some(1)],
     [NoUpdate EXCEPT !.min_participants = Some(3)]}

\* a commitment to AlwaysDefect; the first byte of the hash selects
\* AlwaysCooperate on forfeit, so that a field has both strategies
CommitmentChoices ==
    {[strategy |-> 1, bytecode |-> <<>>, salt |-> 7, byte0 |-> 11]}

RevealChoices ==
    {[strategy |-> 1, salt |-> 7, bytecode |-> NoneBytes],
     [strategy |-> 2, salt |-> 7, bytecode |-> NoneBytes],
     [strategy |-> CustomIndex, salt |-> 7, bytecode |-> Some(<<DEFECT>>)]}

SlotHashChoices == {Some(Seed7), NoneBytes}

\* refund_entry and refund_player of close_reveal: neither, both of one
\* player, or of two players
RefundAccounts ==
    {<<NoneOpt, NoneOpt>>, <<Some(1), Some(2)>>}
        \cup {<<Some(p), Some(p)>> : p \in PlayerKeys}

\* the players that have an entry account address in the state
EntryKeys == DOMAIN arena.entries
FirstKey == CHOOSE p \in EntryKeys : \A q \in EntryKeys : p <= q

\* the entry and the player account of close_entry: of one player, or of two
CloseEntryAccounts == {<<p, p>> : p \in EntryKeys} \cup {<<FirstKey, FirstKey + 1>>}

Signers == {OperatorKey, AdminKey}

InitArena ==
    /\ \E checks \in BOOLEAN :
          arena = [at |-> "Live", overflow_checks |-> checks, now |-> 0,
                   config |-> Config_default, tournament |-> Tournament_default,
                   entries |-> [p \in PlayerKeys |-> Entry_default],
                   next_tournament |-> Tournament_default]
    /\ round_keys = <<>>
    /\ VmIdle
    /\ FeIdle
    /\ PgIdle
    /\ UnIdle
    /\ GameIdle
    /\ EvIdle
    /\ SubIdle

\* the clock between two transactions
Tick ==
    /\ arena.at = "Live"
    /\ arena.config.exists
    /\ \E d \in {1, CLAIM_EXPIRY_SECONDS} :
          /\ d = 1 => arena.now % CLAIM_EXPIRY_SECONDS < MaxTicks
          /\ d > 1 => (arena.now < CLAIM_EXPIRY_SECONDS
                       /\ arena.tournament.state = "Payout")
          /\ arena' = [arena EXCEPT !.now = @ + d]
    /\ UNCHANGED <<vmVars, feVars, round_keys, pgVars, unVars, gameVars, evVars, subVars>>

InitializeConfig ==
    /\ arena.at = "Live"
    /\ \E params \in InitializeChoices :
          arena' = initialize_config(arena, AdminKey, params).st
    /\ UNCHANGED <<vmVars, feVars, round_keys, pgVars, unVars, gameVars, evVars, subVars>>

UpdateConfig ==
    /\ arena.at = "Live"
    /\ arena.tournament.state = "Registration"
    /\ \E signer \in Signers, params \in UpdateChoices :
          arena' = update_config(arena, signer, params).st
    /\ UNCHANGED <<vmVars, feVars, round_keys, pgVars, unVars, gameVars, evVars, subVars>>

WithdrawFees ==
    /\ arena.at = "Live"
    /\ \E signer \in Signers : arena' = withdraw_fees(arena, signer).st
    /\ UNCHANGED <<vmVars, feVars, round_keys, pgVars, unVars, gameVars, evVars, subVars>>

\* players are interchangeable: the one that enters is the first without an
\* entry account, or the first of all
EnterTournament ==
    /\ arena.at = "Live"
    /\ \E player \in PlayerKeys, commitment \in CommitmentChoices :
          /\ \/ player = 1
             \/ /\ ~arena.entries[player].exists
                /\ \A q \in 1..(player - 1) : arena.entries[q].exists
          /\ arena' = enter_tournament(arena, player, commitment).st
    /\ UNCHANGED <<vmVars, feVars, round_keys, pgVars, unVars, gameVars, evVars, subVars>>

RevealStrategy ==
    /\ arena.at = "Live"
    /\ \E player \in PlayerKeys, r \in RevealChoices :
          arena' = reveal_strategy(arena, player, r.strategy, r.salt, r.bytecode).st
    /\ UNCHANGED <<vmVars, feVars, round_keys, pgVars, unVars, gameVars, evVars, subVars>>

ClaimRefund ==
    /\ arena.at = "Live"
    /\ \E player \in PlayerKeys : arena' = claim_refund(arena, player).st
    /\ UNCHANGED <<vmVars, feVars, round_keys, pgVars, unVars, gameVars, evVars, subVars>>

ClaimPayout ==
    /\ arena.at = "Live"
    /\ \E player \in EntryKeys : arena' = claim_payout(arena, player).st
    /\ UNCHANGED <<vmVars, feVars, round_keys, pgVars, unVars, gameVars, evVars, subVars>>

CloseRegistration ==
    /\ arena.at = "Live"
    /\ \E signer \in Signers : arena' = close_registration(arena, signer).st
    /\ UNCHANGED <<vmVars, feVars, round_keys, pgVars, unVars, gameVars, evVars, subVars>>

CloseReveal ==
    /\ arena.at = "Live"
    /\ \E signer \in Signers, slot_hashes \in SlotHashChoices,
          refund \in RefundAccounts :
          arena' = close_reveal(arena, signer, slot_hashes, refund[1], refund[2]).st
    /\ UNCHANGED <<vmVars, feVars, round_keys, pgVars, unVars, gameVars, evVars, subVars>>

ForfeitUnrevealed ==
    /\ arena.at = "Live"
    /\ \E signer \in Signers, player \in PlayerKeys :
          arena' = forfeit_unrevealed(arena, signer, player).st
    /\ UNCHANGED <<vmVars, feVars, round_keys, pgVars, unVars, gameVars, evVars, subVars>>

\* the operator's costs grow with every call, also when no match is left:
\* such calls are made up to MaxOperatorCosts
RunMatches ==
    /\ arena.at = "Live"
    /\ \/ arena.tournament.matches_completed < arena.tournament.matches_total
       \/ arena.tournament.operator_costs < MaxOperatorCosts
    /\ \E signer \in Signers, remaining_accounts \in {EntryKeys, {}} :
          arena' = run_matches(arena, signer, remaining_accounts).st
    /\ UNCHANGED <<vmVars, feVars, round_keys, pgVars, unVars, gameVars, evVars, subVars>>

FinalizeTournament ==
    /\ arena.at = "Live"
    /\ \E signer \in Signers : arena' = finalize_tournament(arena, signer).st
    /\ UNCHANGED <<vmVars, feVars, round_keys, pgVars, unVars, gameVars, evVars, subVars>>

CloseEntry ==
    /\ arena.at = "Live"
    /\ \E signer \in Signers, accounts \in CloseEntryAccounts :
          arena' = close_entry(arena, signer, accounts[1], accounts[2]).st
    /\ UNCHANGED <<vmVars, feVars, round_keys, pgVars, unVars, gameVars, evVars, subVars>>

CloseTournament ==
    /\ arena.at = "Live"
    /\ \E signer \in Signers : arena' = close_tournament(arena, signer).st
    /\ UNCHANGED <<vmVars, feVars, round_keys, pgVars, unVars, gameVars, evVars, subVars>>

NextArena ==
    \/ Tick \/ InitializeConfig \/ UpdateConfig \/ WithdrawFees
    \/ EnterTournament \/ RevealStrategy \/ ClaimRefund \/ ClaimPayout
    \/ CloseRegistration \/ CloseReveal \/ ForfeitUnrevealed \/ RunMatches
    \/ FinalizeTournament \/ CloseEntry \/ CloseTournament

SpecArena == InitArena /\ [][NextArena]_vars

(***************************************************************************)
(* Larger fields.  A field is the tournament as close_reveal leaves it     *)
(* after these transactions, applied to the accounts not yet created:      *)
(* initialize_config, update_config of the operator's fee, enter_tournament*)
(* by `entered` players, optionally claim_refund by the first of them,     *)
(* close_registration at the deadline, reveal_strategy by every player     *)
(* left or claim_refund by all of them, close_reveal past the reveal       *)
(* deadline with the last player's accounts for the odd-player refund.     *)
(* The refunds of all players leave the account its rent only after a      *)
(* transfer of lamports to it, which precedes them.                        *)
(* The player in slot i commits to the i-th strategy of a pattern.  From   *)
(* there the operator runs the matches and finalizes, and the entries are  *)
(* paid and closed.  No sum of a field reaches the width of its integer,   *)
(* so the build's overflow checks make no difference here.                 *)
(***************************************************************************)
MaxField == 6

FieldKey(i) == AdminKey + i

FieldParams ==
    [operator |-> OperatorKey, stake |-> 1000, min_participants |-> 2,
     max_participants |-> MaxField, registration_duration |-> 1,
     matches_per_player |-> 2, reveal_duration |-> 0]

\* indices of state.rs::Strategy by slot: all AlwaysDefect, which ties the
\* scores of a match; TitForTat, AlwaysDefect, AlwaysCooperate, GrimTrigger, Pavlov,
\* TitForTwoTats in turn
FieldPatterns == {<<1>>, <<0, 1, 2, 3, 4, 7>>}

FieldCommitment(pattern, i) ==
    [strategy |-> pattern[((i - 1) % Len(pattern)) + 1], bytecode |-> <<>>,
     salt |-> 7, byte0 |-> 11]

\* enter_tournament by the players i..entered, one after the other
RECURSIVE Entered(_, _, _, _)
Entered(a, i, entered, pattern) ==
    IF i > entered THEN a
    ELSE Entered(enter_tournament(a, FieldKey(i), FieldCommitment(pattern, i)).st,
                 i + 1, entered, pattern)

\* reveal_strategy by the players i..entered that have an entry
RECURSIVE Revealed(_, _, _)
Revealed(a, i, entered) ==
    IF i > entered THEN a
    ELSE Revealed(reveal_strategy(a, FieldKey(i),
                                  a.entries[FieldKey(i)].commitment.strategy,
                                  a.entries[FieldKey(i)].commitment.salt, NoneBytes).st,
                  i + 1, entered)

\* a system transfer of lamports to the tournament account, which any
\* account can make
Granted(a, lamports) == [a EXCEPT !.tournament.lamports = @ + lamports]

\* claim_refund by the players i..entered, one after the other
RECURSIVE Refunded(_, _, _)
Refunded(a, i, entered) ==
    IF i > entered THEN a
    ELSE Refunded(claim_refund(a, FieldKey(i)).st, i + 1, entered)

\* the last player of the field, for the accounts of the odd-player refund
LastPlayer(a) ==
    IF a.tournament.participant_count = 0 THEN NoneOpt
    ELSE Some(a.tournament.players[rposition(a.tournament.players,
                                             Len(a.tournament.players))])

Field(entered, pattern, refund) ==
    Bind([at |-> "Live", overflow_checks |-> TRUE, now |-> 0,
          config |-> Config_default, tournament |-> Tournament_default,
          entries |-> [p \in {FieldKey(i) : i \in 1..entered} |-> Entry_default],
          next_tournament |-> Tournament_default], LAMBDA a0 :
    Bind(initialize_config(a0, AdminKey, FieldParams).st, LAMBDA a1 :
    Bind(update_config(a1, AdminKey, [NoUpdate EXCEPT !.operator_tx_fee = Some(1)]).st,
         LAMBDA a2 :
    Bind(Entered(a2, 1, entered, pattern), LAMBDA a3 :
    Bind(IF refund = "first" THEN claim_refund(a3, FieldKey(1)).st ELSE a3, LAMBDA a4 :
    Bind(close_registration([a4 EXCEPT !.now = 1], OperatorKey).st, LAMBDA a5 :
    Bind(IF refund = "all" THEN Refunded(Granted(a5, entered * a5.tournament.stake),
                                         1, entered)
         ELSE Revealed(a5, 1, entered), LAMBDA a6 :
        close_reveal([a6 EXCEPT !.now = 2], OperatorKey, Some(Seed7),
                     LastPlayer(a6), LastPlayer(a6)).st)))))))

Fields ==
    {Field(entered, pattern, refund) :
        entered \in 2..MaxField, pattern \in FieldPatterns,
        refund \in {"none", "first", "all"}}

InitField ==
    /\ arena \in {a \in Fields : a.tournament.state = "Running"}
    /\ round_keys = <<>>
    /\ VmIdle
    /\ FeIdle
    /\ PgIdle
    /\ UnIdle
    /\ GameIdle
    /\ EvIdle
    /\ SubIdle

NextField ==
    \/ Tick \/ RunMatches \/ FinalizeTournament \/ ClaimPayout \/ CloseEntry
    \/ CloseTournament \/ WithdrawFees

SpecField == InitField /\ [][NextField]_vars

Init == InitVm \/ InitFeistel \/ InitPairing \/ InitFloyd \/ InitUnrank \/ InitMatch
            \/ InitStrategy \/ InitRounds \/ InitArena \/ InitField
Next == NextVm \/ NextFeistel \/ NextPairing \/ NextFloyd \/ NextUnrank \/ NextMatch
            \/ NextStrategy \/ NextRounds \/ NextArena \/ NextField
Spec == Init /\ [][Next]_vars

(***************************************************************************)
(* Properties of the interpreter (SpecVm).                                 *)
(***************************************************************************)
\* The instruction table: the bytes an instruction occupies, and the values
\* it pops and pushes.
TwoByte(opcode) == opcode \in {PUSH, JMP_FWD, JMP_FWD_IF}
Pops(opcode) ==
    CASE opcode \in {RETURN, OPP_N, MY_N, NOT, DUP, JMP_FWD_IF} -> 1
      [] opcode \in {ADD, SUB, MUL, GT, LT, EQ, AND, OR} -> 2
      [] OTHER -> 0
Pushes(opcode) ==
    CASE opcode \in {COOP, DEFECT, RETURN, JMP_FWD, JMP_FWD_IF} -> 0
      [] opcode = DUP -> 2
      [] OTHER -> 1

\* The next pass of the interpreter meets a fault: it runs past the end of
\* the program, decodes a byte outside the table, misses an operand byte,
\* pops from too small a stack or pushes onto a full one.
MeetsFault(b, v) ==
    \/ v.pc >= Len(b)
    \/ b[v.pc + 1] \notin COOP..RETURN
    \/ TwoByte(b[v.pc + 1]) /\ v.pc + 1 >= Len(b)
    \/ v.sp < Pops(b[v.pc + 1])
    \/ v.sp - Pops(b[v.pc + 1]) + Pushes(b[v.pc + 1]) > STACK_SIZE

\* C2: execute_bytecode is total and fail-safe: every call returns a move
\* after at most MAX_FUEL + 1 passes of the loop, and a pass that meets a
\* stack overflow, a stack underflow, an unknown opcode, a missing operand
\* or the end of the program ends the call with the move Cooperate.
C2_FailSafe ==
    /\ [](vm.ret # "Running" => move \in Move)
    /\ [](vm.fuel <= MAX_FUEL + 1 /\ (vm.ret = "Running" => vm.fuel <= MAX_FUEL))
    /\ [][(vm.ret = "Running" /\ vm' # vm /\ MeetsFault(bytecode, vm))
            => (vm'.ret = "None" /\ move' = Cooperate)]_vars

\* a push on eight occupied slots was answered with Cooperate
C2_Witness ==
    /\ vm.ret = "None"
    /\ move = Cooperate
    /\ vm.fuel <= MAX_FUEL
    /\ vm.pc + 1 < Len(bytecode)
    /\ bytecode[vm.pc + 1] = PUSH
    /\ vm.sp = STACK_SIZE

\* The offsets of the linear scan of b from offset p: 2 bytes after PUSH,
\* JMP_FWD and JMP_FWD_IF, 1 byte after every other byte.
RECURSIVE LinearScan(_, _)
LinearScan(b, p) ==
    IF p >= Len(b) THEN {}
    ELSE {p} \cup LinearScan(b, p + (IF TwoByte(b[p + 1]) THEN 2 ELSE 1))

WellFormed(b) ==
    /\ Len(b) >= 1
    /\ Len(b) <= MAX_BYTECODE_LEN
    /\ \A p \in LinearScan(b, 0) :
          /\ b[p + 1] \in COOP..RETURN
          /\ TwoByte(b[p + 1]) => p + 1 < Len(b)
          /\ (b[p + 1] \in {JMP_FWD, JMP_FWD_IF} /\ p + 1 < Len(b))
                => p + 2 + b[p + 2] <= Len(b)
    /\ \E p \in LinearScan(b, 0) : b[p + 1] \in {COOP, DEFECT, RETURN}

ValidateReturned == scan.res.kind \notin {"NotStarted", "Scanning"}

\* C3: validate_bytecode returns Ok exactly when the program has 1 to 64
\* bytes, every opcode of its linear scan is in the table, has its operand
\* byte inside the program and, when a jump, a target not past the end, and
\* some scanned opcode is COOP, DEFECT or RETURN; otherwise it returns an
\* error.
C3_ValidateExact ==
    ValidateReturned => (scan.res = VOk <=> WellFormed(bytecode))

\* the Pavlov encoding, with its two jumps, was accepted
C3_Witness == scan.res = VOk /\ bytecode = Encoding("Pavlov")

\* C4: during the execution of an accepted program every opcode is decoded
\* at an offset the validator's scan visited, is in the table and has its
\* operand byte.
C4_DecodeAtScanned ==
    (scan.res = VOk /\ vm.ret = "Running" /\ vm.pc < Len(bytecode)
        /\ vm.fuel < MAX_FUEL)
    => /\ vm.pc \in scanned
       /\ bytecode[vm.pc + 1] \in COOP..RETURN
       /\ TwoByte(bytecode[vm.pc + 1]) => vm.pc + 1 < Len(bytecode)

\* C5: at round r, with histories of length r, each of the seven encodings
\* returns the move of the built-in strategy with default parameters.
C5_Parity ==
    \A base \in ParityBases :
        (/\ bytecode = Encoding(base)
         /\ move # "Pending"
         /\ Len(opponent_history) = round
         /\ Len(my_history) = round)
        => move = execute_strategy(Strategy_new(base), opponent_history,
                                   my_history, round, vm.rng).move

\* The same parity for the six encodings other than Pavlov's, whose two
\* jumps both land on the NOT at offset 15.
ParityExceptPavlov ==
    \A base \in ParityBases \ {"Pavlov"} :
        (/\ bytecode = Encoding(base)
         /\ move # "Pending"
         /\ Len(opponent_history) = round
         /\ Len(my_history) = round)
        => move = execute_strategy(Strategy_new(base), opponent_history,
                                   my_history, round, vm.rng).move

(***************************************************************************)
(* Claims about the Feistel permutation (checked under SpecFeistel)        *)
(***************************************************************************)
\* the inputs of the domain permuted so far all returned
AllPermuted == idx = domain_size /\ walk.res # Walking

InRange(v) == v >= 0 /\ v < domain_size

\* C7: feistel_permute is a bijection on [0, domain): every input below the
\* domain size returns Some(v) with v below the domain size (the cycle walk
\* never runs out of its 1000 passes), and two different inputs never return
\* the same value.
C7_Bijection ==
    /\ \A i \in 1..Len(outputs) : InRange(outputs[i])
    /\ \A i, j \in 1..Len(outputs) : i # j => outputs[i] # outputs[j]

\* the same on the domains of at most MaxDomain values
BijectionOnSmallDomains == domain_size <= MaxDomain => C7_Bijection

(***************************************************************************)
(* Claims about the pairings (checked under SpecPairing)                   *)
(***************************************************************************)
MatchCount == calculate_match_count(participant_count, matches_per_player)

LookupReturned == lookup.match_index >= 0

CircularRegime == participant_count > matches_per_player + 1

\* the enumeration has the counted length and the lookup returns its element
EnumerationAgrees ==
    /\ gen.status # "Panic"
    /\ lookup.result.kind # "Panic"
    /\ gen.status = "Done" => Len(gen.pairs) = MatchCount
    /\ (gen.status = "Done" /\ LookupReturned /\ lookup.match_index < MatchCount)
           => /\ lookup.match_index < Len(gen.pairs)
              /\ lookup.result.kind = "Some"
              /\ lookup.result.pair = gen.pairs[lookup.match_index + 1]

\* C6: for every n, every K and every seed, generate_all_pairings returns
\* exactly calculate_match_count(n, K) pairs and its element at position i is
\* the pair get_pairing_for_match returns for i, for every i below the count.
C6_EnumerationEqualsLookup == EnumerationAgrees

\* the same for K up to 100
EnumerationAgreesUpTo100 == matches_per_player <= 100 => EnumerationAgrees

\* C8: for every n, every K <= 100 and every seed, get_pairing_for_match
\* returns None exactly when match_index >= calculate_match_count(n, K), and
\* Some pair for every index below the count.
C8_NoneIffPastCount ==
    (LookupReturned /\ matches_per_player <= 100)
        => /\ lookup.result.kind \in {"Some", "None"}
           /\ lookup.result.kind = "None" <=> lookup.match_index >= MatchCount

\* the first index past a non-empty enumeration was looked up and gave None
C8_Witness ==
    /\ LookupReturned
    /\ matches_per_player <= 100
    /\ MatchCount > 0
    /\ lookup.match_index = MatchCount
    /\ lookup.result = NonePair

Ordered(pair) ==
    /\ 0 <= pair[1]
    /\ pair[1] < pair[2]
    /\ pair[2] < participant_count

\* C9: every pair (a, b) returned by get_pairing_for_match or contained in
\* generate_all_pairings satisfies a < b < participant_count, in the
\* round-robin and in the circular regime.
C9_PairsOrdered ==
    /\ \A i \in 1..Len(gen.pairs) : Ordered(gen.pairs[i])
    /\ lookup.result.kind = "Some" => Ordered(lookup.result.pair)

\* a circular enumeration of seven players has returned and a lookup in it
\* gave a pair
C9_Witness ==
    /\ CircularRegime
    /\ participant_count = 7
    /\ gen.status = "Done"
    /\ Len(gen.pairs) = MatchCount
    /\ lookup.result.kind = "Some"

\* C10: in the circular regime (n > K + 1) no two different match indices
\* below calculate_match_count(n, K) map to the same unordered pair.
C10_NoDuplicatePairs ==
    CircularRegime =>
        \A i, j \in 1..Len(gen.pairs) :
            i # j => {gen.pairs[i][1], gen.pairs[i][2]}
                         # {gen.pairs[j][1], gen.pairs[j][2]}

\* the circular enumeration of 20 players with K = 8 has returned its 80 pairs
C10_Witness ==
    /\ participant_count = 20
    /\ matches_per_player = 8
    /\ gen.status = "Done"
    /\ Len(gen.pairs) = 80

\* the number of pairs of the enumeration that name player p
Appearances(p) ==
    Cardinality({i \in 1..Len(gen.pairs) : p \in {gen.pairs[i][1], gen.pairs[i][2]}})

Players == 0..(participant_count - 1)

EvenCircular ==
    /\ CircularRegime
    /\ matches_per_player % 2 = 0
    /\ matches_per_player >= 2

\* the count is n * K / 2, the enumeration returns, and it names every player
\* K times
EvenCircularExactlyK ==
    EvenCircular =>
        /\ MatchCount = (participant_count * matches_per_player) \div 2
        /\ gen.status # "Panic"
        /\ gen.status = "Done" =>
               \A p \in Players : Appearances(p) = matches_per_player

\* C11: in the circular regime with even K (n > K + 1, K even, K >= 2),
\* calculate_match_count(n, K) = n * K / 2 and every player index in [0, n)
\* appears in exactly K pairs of generate_all_pairings(n, K, seed).
C11_EvenCircularExactlyK == EvenCircularExactlyK

\* the same for K up to 100
EvenCircularExactlyKUpTo100 == matches_per_player <= 100 => EvenCircularExactlyK

\* the number of matches the enumeration gives each player: n - 1 per full
\* round-robin, two per offset in the circular regime
MatchesEach ==
    IF CircularRegime THEN 2 * div_ceil(matches_per_player, 2)
    ELSE (participant_count - 1) * div_ceil(matches_per_player, participant_count - 1)

Requested == participant_count >= 2 /\ matches_per_player >= 1

EnumerationDone == gen.status = "Done"

\* C12 (as stated): for every n >= 2, every K >= 1 and every seed, every
\* player index in [0, n) appears in exactly K pairs of
\* generate_all_pairings(n, K, seed).
C12_ExactlyK ==
    (Requested /\ EnumerationDone) =>
        \A p \in Players : Appearances(p) = matches_per_player

\* C12 (amended): for every n >= 2 and every K with 1 <= K <= 100, every
\* player appears in exactly (n - 1) * ceil(K / (n - 1)) pairs in the
\* round-robin regime and in exactly 2 * ceil(K / 2) pairs in the circular
\* regime: exactly K only when K is a multiple of n - 1, or even.
C12_ExactlyMatchesEach ==
    (Requested /\ matches_per_player <= 100) =>
        /\ gen.status # "Panic"
        /\ EnumerationDone => \A p \in Players : Appearances(p) = MatchesEach

\* seven players asked for three matches each: the enumeration has returned
\* and gives each player four
C12_Witness ==
    /\ participant_count = 7
    /\ matches_per_player = 3
    /\ EnumerationDone
    /\ \A p \in Players : Appearances(p) = 4

\* C13: for every n >= 2, every K with 1 <= K <= 100 and every seed, every
\* player index in [0, n) appears in at least K pairs of
\* generate_all_pairings(n, K, seed).
C13_AtLeastK ==
    (Requested /\ matches_per_player <= 100) =>
        /\ gen.status # "Panic"
        /\ EnumerationDone => \A p \in Players : Appearances(p) >= matches_per_player

\* four players asked for five matches each (two full round-robins): the
\* enumeration has returned its twelve pairs
C13_Witness ==
    /\ participant_count = 4
    /\ matches_per_player = 5
    /\ EnumerationDone
    /\ Len(gen.pairs) = 12

RoundRobinRegime ==
    participant_count >= 2 /\ participant_count <= matches_per_player + 1

\* the number of positions of the enumeration that hold the pair (a, b)
Occurrences(a, b) ==
    Cardinality({i \in 1..Len(gen.pairs) : gen.pairs[i] = <<a, b>>})

\* C14: in the round-robin regime (2 <= n <= K + 1) the match count is
\* C(n,2) * ceil(K / (n - 1)) and, over the full enumeration, each unordered
\* pair {a, b} with a < b < n appears exactly ceil(K / (n - 1)) times.
C14_RoundRobinCycles ==
    RoundRobinRegime =>
        LET cycles == div_ceil(matches_per_player, participant_count - 1)
        IN  /\ MatchCount
                  = ((participant_count * (participant_count - 1)) \div 2) * cycles
            /\ gen.status # "Panic"
            /\ EnumerationDone =>
                   \A b \in Players : \A a \in 0..(b - 1) : Occurrences(a, b) = cycles

\* three players asked for six matches each: three full round-robins returned
C14_Witness ==
    /\ participant_count = 3
    /\ matches_per_player = 6
    /\ EnumerationDone
    /\ Occurrences(0, 2) = 3

(***************************************************************************)
(* Claims about select_offsets (checked under SpecFloyd)                   *)
(***************************************************************************)
OffsetsReturned == gen.status = "Selected"

\* C15: for every n and K with n > K + 1 and K <= 100, and for every
\* sequence of generator outcomes, select_offsets returns exactly ceil(K / 2)
\* offsets that are pairwise distinct, sorted ascending, and each in
\* [1, available], available = n / 2 - 1 for even n and floor(n / 2) for odd n.
C15_FloydSample ==
    (OffsetsReturned /\ CircularRegime /\ matches_per_player <= 100) =>
        /\ Len(sel.offsets) = div_ceil(matches_per_player, 2)
        /\ \A i \in 1..Len(sel.offsets) :
               /\ sel.offsets[i] >= 1
               /\ sel.offsets[i] <= (IF participant_count % 2 = 0
                                     THEN participant_count \div 2 - 1
                                     ELSE participant_count \div 2)
        /\ \A i \in 1..(Len(sel.offsets) - 1) : sel.offsets[i] < sel.offsets[i + 1]

\* three offsets were returned, and the loop had placed them out of
\* ascending order
C15_Witness ==
    /\ OffsetsReturned
    /\ Len(sel.offsets) = 3
    /\ sel.fl.result # sel.offsets

(***************************************************************************)
(* unrank_pair against colexicographic unranking.                          *)
(***************************************************************************)
\* C(b, 2) for b <= 65536, computed without leaving TLC's integer range
Tri(b) == IF b % 2 = 0 THEN (b \div 2) * (b - 1) ELSE b * ((b - 1) \div 2)

MaxPairN == 16

\* <<a, b>> is the pair of colex rank `rank`: b is the largest value with
\* C(b, 2) <= rank (that is C(b, 2) <= rank < C(b + 1, 2) = C(b, 2) + b),
\* a is the remainder, and the pair lies below n exactly when rank < C(n, 2)
IsColexPair(rank, pair) ==
    /\ Len(pair) = 2
    /\ pair[2] >= 1 /\ pair[2] <= 65536
    /\ pair[1] >= 0 /\ pair[1] < pair[2]
    /\ pair[1] = rank - Tri(pair[2])
    /\ \A n \in 2..MaxPairN : (rank < Tri(n)) <=> (pair[2] < n)

\* below the first wide rank the function returns, and returns the colex pair,
\* in either build
UnrankColexBelowWide ==
    un.rank < FirstWideRank =>
        /\ un.at # "Panic"
        /\ un.at = "Done" => IsColexPair(un.rank, un.pair)

\* the step-wise function and the closed operator used by the pairing model
\* agree on the small ranks
UnrankAgrees ==
    (un.at = "Done" /\ un.rank <= MaxRank) => un.pair = Tup(unrank_pair(un.rank))

\* C16: for every rank r, unrank_pair returns the colex pair of r: b is the
\* largest value with b(b-1)/2 <= r, a = r - b(b-1)/2 and a < b; so for every
\* n >= 2 the ranks 0..C(n,2)-1 map one-to-one onto the pairs a < b < n.
C16_ColexUnranking ==
    /\ un.at # "Panic"
    /\ un.at = "Done" => IsColexPair(un.rank, un.pair)

(***************************************************************************)
(* run_match: round counts, scores and the players' generators.            *)
(***************************************************************************)
\* C17: run_match returns round_count in [20, 50] when participant_count <=
\* 1000 and in [10, 30] when participant_count > 1000, and rounds has exactly
\* round_count entries whose round fields are 0, 1, ..., round_count - 1.
C17_RoundBounds ==
    game.at = "Done" =>
        /\ game.participant_count <= 1000 => game.round_count \in 20..50
        /\ game.participant_count > 1000 => game.round_count \in 10..30
        /\ Len(game.rounds) = game.round_count
        /\ \A i \in 1..Len(game.rounds) : game.rounds[i].round = i - 1

\* a match of the standard tier at its limit of 1000 participants that ran
\* the maximum of 50 rounds
C17_Witness ==
    /\ game.at = "Done"
    /\ game.participant_count = 1000
    /\ game.round_count = 50
    /\ Len(game.rounds) = 50

\* the sum of score_a (who = 1) or score_b (who = 2) over the first i rounds
RECURSIVE ScoreSum(_, _, _)
ScoreSum(rounds, i, who) ==
    IF i = 0 THEN 0
    ELSE ScoreSum(rounds, i - 1, who)
         + (IF who = 1 THEN rounds[i].score_a ELSE rounds[i].score_b)

PayoffMatrix ==
    {<<Cooperate, Cooperate, 3, 3>>, <<Cooperate, Defect, 0, 5>>,
     <<Defect, Cooperate, 5, 0>>, <<Defect, Defect, 1, 1>>}

Played == game.at \in {"Rounds", "Done"}

\* C18: each round's (score_a, score_b) is the payoff-matrix entry of its
\* moves, cumulative_a and cumulative_b of round r are the sums of the scores
\* over rounds 0..=r, and the totals are the cumulative values of the last
\* round (0 when there are no rounds).
C18_ScoreBookkeeping ==
    Played =>
        /\ \A i \in 1..Len(game.rounds) :
              /\ <<game.rounds[i].move_a, game.rounds[i].move_b,
                    game.rounds[i].score_a, game.rounds[i].score_b>> \in PayoffMatrix
              /\ game.rounds[i].cumulative_a = ScoreSum(game.rounds, i, 1)
              /\ game.rounds[i].cumulative_b = ScoreSum(game.rounds, i, 2)
        /\ game.total_a = IF game.rounds = <<>> THEN 0
                          ELSE game.rounds[Len(game.rounds)].cumulative_a
        /\ game.total_b = IF game.rounds = <<>> THEN 0
                          ELSE game.rounds[Len(game.rounds)].cumulative_b

\* a returned match in which each player was exploited at least once and
\* the totals differ
C18_Witness ==
    /\ game.at = "Done"
    /\ \E i \in 1..Len(game.rounds) :
          game.rounds[i].move_a = Cooperate /\ game.rounds[i].move_b = Defect
    /\ \E i \in 1..Len(game.rounds) :
          game.rounds[i].move_a = Defect /\ game.rounds[i].move_b = Cooperate
    /\ game.total_a # game.total_b

\* the match generator as it stands after the round count was determined, from
\* the seed, the match index and the participant count alone
MatchGenerator(seed_bytes, match_index, n) ==
    determine_round_count(SeededRng_new(seed_bytes, U64FromInt(match_index)),
                          round_config(n)).rng

HandedFrom(g) ==
    /\ game.rng = g
    /\ Len(game.rng_a) = game.round_count /\ Len(game.rng_b) = game.round_count
    /\ \A r \in 0..(game.round_count - 1) :
          /\ game.rng_a[r + 1] = for_round(g, 2 * r)
          /\ game.rng_b[r + 1] = for_round(g, 2 * r + 1)

\* C19: the generator handed to player A in round r is for_round(2r) and the
\* one handed to player B is for_round(2r+1) of the match generator as it
\* stands after the round count was determined: they are given by the seed,
\* the match index, the participant count and r, whatever the strategies, the
\* moves played and the draws either player consumed.
C19_IndependentStreams ==
    game.at = "Done" =>
        Bind(MatchGenerator(game.seed, game.match_index, game.participant_count),
             LAMBDA g : HandedFrom(g))

\* a returned match in which player A drew from its generator in every round
\* and player B in none
C19_Witness ==
    /\ game.at = "Done"
    /\ game.round_count > 20
    /\ \A r \in 1..Len(game.draws_a) : game.draws_a[r] /\ ~game.draws_b[r]

(***************************************************************************)
(* Forward-only control flow of the VM.                                    *)
(***************************************************************************)
\* C20: every executed instruction that does not end the call strictly
\* increases the program counter, so execution stops after at most
\* len(bytecode) executed instructions; a program of at most MAX_BYTECODE_LEN
\* bytes never exhausts the fuel.
C20_ForwardOnly ==
    /\ [][(vm.ret = "Running" /\ vm'.ret = "Running" /\ vm'.fuel # vm.fuel)
            => vm'.pc > vm.pc]_vars
    /\ [](vm.fuel <= Len(bytecode))
    /\ [](Len(bytecode) <= MAX_BYTECODE_LEN => vm.fuel <= MAX_FUEL)

\* a program of the full length ran its 63 instructions, to the RETURN in
\* its last byte
C20_Witness ==
    /\ Len(bytecode) = MAX_BYTECODE_LEN
    /\ vm.ret \in Move
    /\ vm.fuel = MAX_BYTECODE_LEN - 1
    /\ vm.pc = MAX_BYTECODE_LEN - 1

(***************************************************************************)
(* The fuel cap of the VM.                                                 *)
(***************************************************************************)
\* the move a terminal opcode at vm.pc returns: COOP, DEFECT, or RETURN of
\* the top of the stack
TerminalMove(b, v) ==
    CASE b[v.pc + 1] = COOP -> Cooperate
      [] b[v.pc + 1] = DEFECT -> Defect
      [] b[v.pc + 1] = RETURN -> IF v.stack[v.sp] = 0 THEN Cooperate ELSE Defect

AtTerminal(b, v) ==
    /\ v.pc < Len(b)
    /\ \/ b[v.pc + 1] \in {COOP, DEFECT}
       \/ b[v.pc + 1] = RETURN /\ v.sp > 0

\* C21: execute_bytecode executes at most MAX_FUEL instructions per call: a
\* pass that would execute one more ends the call with Cooperate, whatever the
\* instruction, also DEFECT or a RETURN of a nonzero value; a terminal that is
\* executed instruction number MAX_FUEL still returns its move.
C21_FuelCap ==
    /\ [](vm.ret = "Running" => vm.fuel <= MAX_FUEL)
    /\ [][(vm.ret = "Running" /\ vm'.fuel # vm.fuel /\ vm.fuel = MAX_FUEL)
            => (vm'.ret = "None" /\ move' = Cooperate)]_vars
    /\ [][(vm.ret = "Running" /\ vm'.fuel # vm.fuel /\ vm.fuel = MAX_FUEL - 1
             /\ AtTerminal(bytecode, vm))
            => (vm'.ret = TerminalMove(bytecode, vm) /\ move' = vm'.ret)]_vars

\* instruction number MAX_FUEL + 1 was a RETURN of 1 and the call returned
\* Cooperate
C21_Witness ==
    /\ vm.fuel = MAX_FUEL + 1
    /\ vm.ret = "None"
    /\ move = Cooperate
    /\ bytecode[vm.pc + 1] = RETURN
    /\ vm.sp = 1 /\ vm.stack[1] = 1

(***************************************************************************)
(* The pairing functions and the capacity of select_offsets.               *)
(***************************************************************************)
\* the offset count calculate_match_count multiplies by n in the circular
\* regime
OffsetsCounted == MatchCount \div participant_count

OffsetsProduced == Len(sel.offsets)

SelectionReturned == gen.status \in {"Mapping", "Done", "Panic"}

\* C22: for every n, every K of u16 (also K > 100) and every match index below
\* calculate_match_count(n, K), generate_all_pairings and
\* get_pairing_for_match complete normally, and in the circular regime the
\* offset count used by calculate_match_count equals the offset count
\* select_offsets produced.
C22_NeverAborts ==
    /\ gen.status # "Panic"
    /\ (LookupReturned /\ lookup.match_index < MatchCount)
           => lookup.result.kind # "Panic"
    /\ (CircularRegime /\ Requested /\ SelectionReturned)
           => OffsetsCounted = OffsetsProduced

\* the same for K up to 100
NeverAbortsUpTo100 == matches_per_player <= 100 => C22_NeverAborts

(***************************************************************************)
(* The built-in evaluator.                                                 *)
(***************************************************************************)
\* C23: execute_strategy returns a Move for every built-in strategy, every
\* parameter set, every round and every pair of histories, also histories of
\* different lengths.
C23_EvaluatorTotal ==
    /\ ev.at # "Panic"
    /\ ev.at = "Returned" => ev.move \in Move

\* the same when the strategy is not Pavlov or the opponent history is not
\* empty
EvaluatorTotalWithOpponentMove ==
    (ev.at \in {"Returned", "Panic"}
        /\ (ev.strategy.base # "Pavlov" \/ ev.opponent_history # <<>>))
    => C23_EvaluatorTotal

(***************************************************************************)
(* The errors of validate_bytecode.                                        *)
(***************************************************************************)
\* what is wrong with the instruction at offset p of b, "" when nothing is
InstructionFault(b, p) ==
    IF b[p + 1] \notin COOP..RETURN THEN "UnknownOpcode"
    ELSE IF TwoByte(b[p + 1]) /\ p + 1 >= Len(b) THEN "TruncatedImmediate"
    ELSE IF b[p + 1] \in {JMP_FWD, JMP_FWD_IF} /\ p + 2 + b[p + 2] > Len(b)
         THEN "JumpOutOfBounds"
    ELSE ""

\* the error of the first offending instruction in linear-scan order, with
\* that instruction's offset (and its opcode when the opcode is unknown)
FirstFault(b) ==
    LET bad == {p \in LinearScan(b, 0) : InstructionFault(b, p) # ""}
        p == CHOOSE q \in bad : \A r \in bad : q <= r
    IN  IF bad = {} THEN VOk
        ELSE VErr(InstructionFault(b, p), p,
                  IF InstructionFault(b, p) = "UnknownOpcode" THEN b[p + 1] ELSE -1)

ExpectedResult(b) ==
    IF Len(b) = 0 THEN VErr("Empty", -1, -1)
    ELSE IF Len(b) > MAX_BYTECODE_LEN THEN VErr("TooLong", -1, -1)
    ELSE IF FirstFault(b) # VOk THEN FirstFault(b)
    ELSE IF \A p \in LinearScan(b, 0) : b[p + 1] \notin {COOP, DEFECT, RETURN}
         THEN VErr("NoTerminal", -1, -1)
    ELSE VOk

\* C24: validate_bytecode returns Empty for a zero-length program and TooLong
\* for one longer than MAX_BYTECODE_LEN before it inspects any opcode;
\* otherwise the error of the first offending instruction in linear-scan
\* order, tagged with that instruction's offset; NoTerminal only when the
\* whole scan completes without error and without COOP, DEFECT or RETURN.
C24_ErrorsExact ==
    ValidateReturned =>
        /\ scan.res = ExpectedResult(bytecode)
        /\ scan.res.kind \in {"Empty", "TooLong"} => scanned = {}

\* a jump out of bounds reported at the offset of its opcode, after a scanned
\* instruction
C24_Witness ==
    /\ scan.res = VErr("JumpOutOfBounds", 1, -1)
    /\ scanned = {0, 1}

(***************************************************************************)
(* The policies of GrimTrigger, Gradual, Pavlov and TitForTat.             *)
(***************************************************************************)
\* the moves of a player's opponent in the rounds played so far, and the
\* player's own: player 1 is A, player 2 is B
MoveOf(who, r) == IF who = 1 THEN game.rounds[r].move_a ELSE game.rounds[r].move_b

Uses(who, base) ==
    (IF who = 1 THEN game.strategy_a ELSE game.strategy_b) = Builtin(Strategy_new(base))

\* C25: a GrimTrigger player with default parameters cooperates in round r
\* exactly when the opponent cooperated in all rounds before r: it cooperates
\* up to and including the round of the opponent's first defection and
\* defects in every later round.
C25_GrimIrreversible ==
    \A who \in {1, 2} :
        (Played /\ Uses(who, "GrimTrigger")) =>
            \A r \in 1..Len(game.rounds) :
                MoveOf(who, r) = Cooperate
                    <=> \A q \in 1..(r - 1) : MoveOf(3 - who, q) = Cooperate

\* a returned match in which player A, GrimTrigger, cooperated in the round of
\* B's first defection, after the first round, and B cooperated again later
C25_Witness ==
    /\ game.at = "Done"
    /\ Uses(1, "GrimTrigger")
    /\ \E r \in 2..Len(game.rounds) :
          /\ MoveOf(2, r) = Defect
          /\ \A q \in 1..(r - 1) : MoveOf(2, q) = Cooperate
          /\ MoveOf(1, r) = Cooperate
          /\ \E q \in (r + 1)..Len(game.rounds) :
                MoveOf(2, q) = Cooperate /\ MoveOf(1, q) = Defect

\* C28: in run_match with A = TitForTat and B = AlwaysDefect (default
\* parameters), for every seed, match_index and participant_count, round 0 has
\* the moves (Cooperate, Defect) and every later round (Defect, Defect).
C28_TitForTatVsAlwaysDefect ==
    (Played /\ Uses(1, "TitForTat") /\ Uses(2, "AlwaysDefect")) =>
        \A r \in 1..Len(game.rounds) :
            /\ MoveOf(1, r) = IF r = 1 THEN Cooperate ELSE Defect
            /\ MoveOf(2, r) = Defect

\* the match of the standard tier that ran 50 rounds
C28_Witness ==
    /\ game.at = "Done"
    /\ Uses(1, "TitForTat") /\ Uses(2, "AlwaysDefect")
    /\ Len(game.rounds) = 50
    /\ game.total_a = 49 /\ game.total_b = 54

\* the number of Defects in a history, counted move by move
RECURSIVE Defections(_)
Defections(history) ==
    IF history = <<>> THEN 0
    ELSE (IF Head(history) = Defect THEN 1 ELSE 0) + Defections(Tail(history))

Evaluated(base) ==
    /\ ev.at \in {"Returned", "Panic"}
    /\ ev.strategy = Strategy_new(base)

\* C26: for every pair of histories, Gradual with default parameters returns
\* Defect exactly when the number of Defects in its own history is smaller
\* than T * (T + 1) / 2, T the number of Defects in the opponent history, and
\* Cooperate otherwise.
C26_GradualPolicy ==
    Evaluated("Gradual") =>
        LET T == Defections(ev.opponent_history)
        IN  /\ ev.move \in Move
            /\ ev.move = Defect
                  <=> Defections(ev.my_history) < (T * (T + 1)) \div 2

\* two opponent defections answered by three own ones: the target is met and
\* Gradual cooperates
C26_Witness ==
    /\ Evaluated("Gradual")
    /\ Defections(ev.opponent_history) = 2
    /\ Defections(ev.my_history) = 3
    /\ ev.move = Cooperate

\* the consequence in a match: a Gradual player has not defected before the
\* opponent has, and after every round its defections are at most T(T+1)/2
\* for T the opponent's defections in the earlier rounds
GradualInMatch ==
    \A who \in {1, 2} :
        (Played /\ Uses(who, "Gradual")) =>
            \A r \in 1..Len(game.rounds) :
                LET T == Cardinality({q \in 1..(r - 1) : MoveOf(3 - who, q) = Defect})
                    D == Cardinality({q \in 1..r : MoveOf(who, q) = Defect})
                IN  D <= (T * (T + 1)) \div 2

\* C27: Pavlov with default parameters returns Cooperate on an empty own
\* history; otherwise it repeats its own last move when the own payoff of the
\* last round is at least 3 and plays the opposite move when it is below 3:
\* Cooperate after (C,C), Defect after (D,C), Defect after (C,D), Cooperate
\* after (D,D), for (own_last, opponent_last).
C27_PavlovPolicy ==
    (Evaluated("Pavlov") /\ (ev.my_history = <<>> \/ ev.opponent_history # <<>>)) =>
        IF ev.my_history = <<>> THEN ev.move = Cooperate
        ELSE LET own == ev.my_history[Len(ev.my_history)]
                 opp == ev.opponent_history[Len(ev.opponent_history)]
             IN  ev.move = CASE own = Cooperate /\ opp = Cooperate -> Cooperate
                             [] own = Defect /\ opp = Cooperate -> Defect
                             [] own = Cooperate /\ opp = Defect -> Defect
                             [] own = Defect /\ opp = Defect -> Cooperate

\* after mutual defection, in histories of different lengths, Pavlov switched
\* to Cooperate
C27_Witness ==
    /\ Evaluated("Pavlov")
    /\ Len(ev.my_history) = 3 /\ Len(ev.opponent_history) = 1
    /\ ev.my_history[3] = Defect /\ ev.opponent_history[1] = Defect
    /\ ev.move = Cooperate

(***************************************************************************)
(* Properties of for_round (SpecRounds).                                   *)
(***************************************************************************)
\* the generators returned so far are in pairwise different states
StreamsDistinct ==
    \A i \in 1..Len(sub.streams) : \A j \in 1..(i - 1) :
        sub.streams[i] # sub.streams[j]

\* C29: called on one generator with different round indices in 0..=255,
\* for_round returns generators in pairwise different internal states, and the
\* generator it is called on is in the state it was in before the calls.
C29_DistinctSubStreams ==
    sub.at # "Idle" => (StreamsDistinct /\ sub.rng = sub.origin)

\* for_round was called with all 256 round indices on a match generator
C29_Witness ==
    /\ sub.at = "Done"
    /\ Len(sub.streams) = RoundIndexMax + 1
    /\ sub.origin = SeededRng_new(Seed7, U64FromInt(5))
    /\ sub.streams[1] = xorshift64(sub.origin)

\* within one match (SpecMatch) the generators handed to the two players in
\* all rounds are in pairwise different states
HandedDistinct ==
    game.at = "Done" =>
        LET handed == game.rng_a \o game.rng_b
        IN  \A i \in 1..Len(handed) : \A j \in 1..(i - 1) : handed[i] # handed[j]

(***************************************************************************)
(* Properties of the on-chain program (SpecArena).                         *)
(***************************************************************************)
\* the tournament account exists before and after the step and its state
\* field goes from one phase to another
StateMoves(from, to) ==
    /\ arena.tournament.exists /\ arena'.tournament.exists
    /\ arena.tournament.state = from /\ arena'.tournament.state = to

\* the step is a close_registration, a close_reveal or a finalize_tournament
\* signed by the operator
ByCloseRegistration == arena' = close_registration(arena, arena.config.operator).st
ByCloseReveal ==
    \E slot_hashes \in SlotHashChoices, refund \in RefundAccounts :
        arena' = close_reveal(arena, arena.config.operator, slot_hashes,
                              refund[1], refund[2]).st
ByFinalizeTournament == arena' = finalize_tournament(arena, arena.config.operator).st

\* C30: whenever the state field of the tournament changes, it goes from
\* Registration to Reveal by close_registration, from Reveal to Running by
\* close_reveal, or from Running to Payout by finalize_tournament: no step
\* moves it to an earlier phase or past a phase, and no other instruction
\* changes it.
C30_LifecycleOrder ==
    [][(/\ arena.at = "Live"
        /\ arena.tournament.exists /\ arena'.tournament.exists
        /\ arena'.tournament.state # arena.tournament.state)
       => \/ StateMoves("Registration", "Reveal") /\ ByCloseRegistration
          \/ StateMoves("Reveal", "Running") /\ ByCloseReveal
          \/ StateMoves("Running", "Payout") /\ ByFinalizeTournament]_vars

\* a tournament that went through all four phases with a match played
C30_Witness ==
    /\ arena.at = "Live"
    /\ arena.tournament.exists
    /\ arena.tournament.state = "Payout"
    /\ arena.tournament.matches_total = 1
    /\ arena.tournament.matches_completed = 1
    /\ arena.tournament.winner_count > 0
    /\ arena.next_tournament.exists


(***************************************************************************)
(* Properties of the tournament from reveal to payout (SpecArena).         *)
(***************************************************************************)
\* the tournament account is there and in the given state
InState(state) ==
    arena.at = "Live" /\ arena.tournament.exists /\ arena.tournament.state = state

\* C31: no unrevealed strategy plays.  A step takes the tournament from
\* Reveal to Running only when reveals_completed was participant_count -
\* forfeits; in every Running state every slot with a player has a strategy
\* other than 255, and run_matches does not fail with UnrevealedStrategy,
\* whatever the order of entries, reveals, forfeits and refunds before.
C31_NoUnrevealedPlays ==
    /\ [](InState("Running")
          => /\ \A i \in 1..Len(arena.tournament.players) :
                    arena.tournament.players[i] # DefaultPubkey
                        => arena.tournament.strategies[i] # U8Max
             /\ run_matches(arena, arena.config.operator, {}).err # "UnrevealedStrategy")
    /\ [][StateMoves("Reveal", "Running")
            => arena.tournament.reveals_completed
                   = arena.tournament.participant_count - arena.tournament.forfeits]_vars

\* a field that plays after a refund, a reveal and a forfeit
C31_Witness ==
    /\ InState("Running")
    /\ arena.tournament.matches_total > 0
    /\ \E i \in 1..Len(arena.tournament.players) :
           arena.tournament.players[i] = DefaultPubkey
    /\ \E p, q \in PlayerKeys :
           /\ arena.entries[p].revealed /\ arena.entries[q].revealed
           /\ arena.entries[p].strategy = arena.entries[p].commitment.strategy
           /\ arena.entries[q].strategy = forfeit_strategy(arena.entries[q].commitment)


\* the pair that run_matches draws for a match index
DrawnPair(match_index) ==
    get_pairing_for_match(arena.tournament.participant_count - arena.tournament.forfeits,
                          arena.tournament.matches_per_player,
                          arena.tournament.randomness_seed, match_index,
                          arena.overflow_checks)

\* C32: every active player can be paired.  In every Running state with
\* matches to play, every slot index with a player is smaller than
\* participant_count - forfeits, the count run_matches gives the pairing
\* generator, and no index drawn for a match is a refunded slot.
C32_ActiveSlotsPairable ==
    (InState("Running") /\ arena.tournament.matches_total > 0)
        => /\ \A i \in 1..Len(arena.tournament.players) :
                  arena.tournament.players[i] # DefaultPubkey
                      => i - 1 < arena.tournament.participant_count
                                     - arena.tournament.forfeits
           /\ \A m \in 0..(arena.tournament.matches_total - 1) :
                  /\ DrawnPair(m).kind = "Some"
                  /\ \A j \in 1..2 :
                         arena.tournament.players[DrawnPair(m).pair[j] + 1]
                             # DefaultPubkey


\* the operator's finalize_tournament on the state as it is
FinalizeResult == finalize_tournament(arena, arena.config.operator)

\* C34: finalize_tournament is guarded.  On every reachable state with the
\* tournament account, the operator's call fails with InvalidState unless the
\* tournament is Running and with MatchesIncomplete while matches_completed
\* < matches_total; a rejected call leaves tournament and config as they
\* were; a successful call sets the state to Payout, raises
\* config.current_tournament_id by 1 and creates the next tournament in
\* Registration with that id.
C34_FinalizeGuarded ==
    (arena.at = "Live" /\ arena.config.exists /\ arena.tournament.exists)
        => /\ arena.tournament.state # "Running" => FinalizeResult.err = "InvalidState"
           /\ (/\ arena.tournament.state = "Running"
               /\ arena.tournament.matches_completed < arena.tournament.matches_total)
                  => FinalizeResult.err = "MatchesIncomplete"
           /\ FinalizeResult.err # "Ok"
                  => /\ FinalizeResult.st.tournament = arena.tournament
                     /\ FinalizeResult.st.config = arena.config
           /\ FinalizeResult.err = "Ok"
                  => /\ FinalizeResult.st.tournament.state = "Payout"
                     /\ FinalizeResult.st.config.current_tournament_id
                            = arena.config.current_tournament_id + 1
                     /\ FinalizeResult.st.next_tournament.exists
                     /\ FinalizeResult.st.next_tournament.state = "Registration"
                     /\ FinalizeResult.st.next_tournament.id
                            = FinalizeResult.st.config.current_tournament_id

\* a finalized tournament with winners, and the next one created
C34_Witness ==
    /\ InState("Payout")
    /\ arena.tournament.winner_count >= 1
    /\ arena.config.current_tournament_id = arena.tournament.id + 1
    /\ arena.next_tournament.exists
    /\ arena.next_tournament.state = "Registration"
    /\ arena.next_tournament.id = arena.config.current_tournament_id


\* the entry accounts of the tournament that are open
OpenEntries == {p \in PlayerKeys : arena.entries[p].exists}

\* C37: entries_remaining counts the open entries.  In every reachable state
\* with the tournament account, entries_remaining is the number of entry
\* accounts created by enter_tournament and not closed by claim_refund,
\* claim_payout or close_entry; it is never below zero; close_tournament
\* succeeds only in Payout with entries_remaining = 0.
C37_EntriesRemaining ==
    (arena.at = "Live" /\ arena.tournament.exists)
        => /\ arena.tournament.entries_remaining = Cardinality(OpenEntries)
           /\ arena.tournament.entries_remaining >= 0
           /\ \A signer \in Signers :
                  close_tournament(arena, signer).err = "Ok"
                      => /\ arena.tournament.state = "Payout"
                         /\ arena.tournament.entries_remaining = 0

\* Payout with the entries of the players closed and the entry of the
\* odd player, refunded by close_reveal, still open
C37_Witness ==
    /\ InState("Payout")
    /\ arena.tournament.entries_remaining = 1
    /\ arena.tournament.claims_processed >= 1
    /\ \E p \in OpenEntries :
           arena.tournament.players[arena.entries[p].index + 1] = DefaultPubkey
    /\ close_tournament(arena, arena.config.operator).err = "EntriesRemaining"


\* the players of the tournament before the step, the last one refunded
LastRefunded ==
    [arena.tournament.players EXCEPT
        ![rposition(arena.tournament.players, Len(arena.tournament.players))]
            = DefaultPubkey]

\* C38: the field is even after the reveal.  A step from Reveal to Running
\* that leaves matches to play leaves an even number, at least 2, of active
\* players; from an odd number exactly the last slot with a player is
\* refunded one stake, from an even number nobody is; without an active
\* player left the tournament is Running with matches_total = 0.
C38_EvenField ==
    [][StateMoves("Reveal", "Running")
          => /\ arena'.tournament.matches_total > 0
                   => /\ arena'.tournament.participant_count % 2 = 0
                      /\ arena'.tournament.participant_count
                             - arena'.tournament.forfeits >= 2
             /\ (arena.tournament.participant_count - arena.tournament.forfeits) % 2 = 1
                   => /\ arena'.tournament.players = LastRefunded
                      /\ arena'.tournament.players # arena.tournament.players
                      /\ arena'.tournament.participant_count
                             = arena.tournament.participant_count - 1
                      /\ arena'.tournament.lamports
                             = arena.tournament.lamports - arena.tournament.stake
             /\ (arena.tournament.participant_count - arena.tournament.forfeits) % 2 = 0
                   => /\ arena'.tournament.players = arena.tournament.players
                      /\ arena'.tournament.lamports = arena.tournament.lamports
             /\ arena'.tournament.participant_count - arena'.tournament.forfeits = 0
                   => arena'.tournament.matches_total = 0]_vars

\* a Running field of two with matches to play and the entry of the refunded
\* odd player still there
C38_Witness ==
    /\ InState("Running")
    /\ arena.tournament.matches_total > 0
    /\ arena.tournament.matches_completed = 0
    /\ arena.tournament.participant_count = 2
    /\ \E p \in OpenEntries :
           /\ arena.entries[p].revealed
           /\ arena.tournament.players[arena.entries[p].index + 1] = DefaultPubkey


\* the pool is the stakes of the participants
Escrowed(t) == t.pool = t.stake * t.participant_count

\* C39: escrow accounting before play.  In every reachable state with the
\* tournament in Registration or Reveal, and in the state close_reveal
\* leaves, pool = stake * participant_count; a step from such a state adds
\* one stake and one participant, removes one stake and one participant, or
\* changes neither.
C39_EscrowAccounting ==
    /\ []((InState("Registration") \/ InState("Reveal")) => Escrowed(arena.tournament))
    /\ [][((InState("Registration") \/ InState("Reveal")) /\ arena'.tournament.exists)
            => /\ StateMoves("Reveal", "Running") => Escrowed(arena'.tournament)
               /\ <<arena'.tournament.pool - arena.tournament.pool,
                    arena'.tournament.participant_count
                        - arena.tournament.participant_count>>
                      \in {<<0, 0>>, <<arena.tournament.stake, 1>>,
                           <<0 - arena.tournament.stake, 0 - 1>>}]_vars

\* Reveal after three entries and a refund, with a strategy revealed
C39_Witness ==
    /\ InState("Reveal")
    /\ Len(arena.tournament.players) >= 3
    /\ arena.tournament.participant_count = 2
    /\ arena.tournament.pool = 2 * arena.tournament.stake
    /\ arena.tournament.stake > 0
    /\ arena.tournament.reveals_completed >= 1


\* the share of a winner
WinnerShare == arena.tournament.winner_pool \div arena.tournament.winner_count

\* C36: payouts are bounded.  In the Payout state, whatever the order of
\* claim_payout and close_entry calls, claims_processed never exceeds
\* winner_count and the shares paid to players, at most one share for each
\* claim counted, never exceed winner_pool; a step that counts a claim closes
\* one entry account and takes at most one share from the tournament.
C36_PayoutsBounded ==
    /\ []((InState("Payout") /\ arena.tournament.winner_count > 0)
          => /\ arena.tournament.claims_processed <= arena.tournament.winner_count
             /\ arena.tournament.claims_processed * WinnerShare
                    <= arena.tournament.winner_pool)
    /\ [][(/\ InState("Payout") /\ arena'.tournament.exists
           /\ arena'.tournament.claims_processed # arena.tournament.claims_processed)
            => /\ arena'.tournament.claims_processed
                      = arena.tournament.claims_processed + 1
               /\ arena'.tournament.lamports >= arena.tournament.lamports - WinnerShare
               /\ \E p \in PlayerKeys :
                      /\ arena.entries[p].exists /\ ~arena'.entries[p].exists
                      /\ \A q \in PlayerKeys \ {p} : arena'.entries[q] = arena.entries[q]]_vars


\* with a winning score above zero the claims counted stay within the winners
PayoutsBoundedAboveZero ==
    (InState("Payout") /\ arena.tournament.min_winning_score > 0)
        => arena.tournament.claims_processed <= arena.tournament.winner_count


(***************************************************************************)
(* Properties of the matches and of the winners of a field (SpecField).    *)
(***************************************************************************)
\* the operator's run_matches with every entry account, on the state as it is
RunResult == run_matches(arena, arena.config.operator, EntryKeys)

\* the matches among the first `completed` indices that a slot has played:
\* those that drew it against a slot with a player
PlayedBy(slot, completed) ==
    Cardinality({m \in 0..(completed - 1) :
        /\ DrawnPair(m).kind = "Some"
        /\ slot \in {DrawnPair(m).pair[1], DrawnPair(m).pair[2]}
        /\ \A j \in 1..2 :
               arena.tournament.players[DrawnPair(m).pair[j] + 1] # DefaultPubkey})

\* `calls` calls of run_matches by the operator, up to the first that fails
RECURSIVE run_matches_calls(_, _)
run_matches_calls(a, calls) ==
    IF calls = 0 THEN Ok(a)
    ELSE Bind(run_matches(a, a.config.operator, DOMAIN a.entries), LAMBDA r :
             IF r.err # "Ok" THEN r ELSE run_matches_calls(r.st, calls - 1))

\* the matches still to run
MatchesLeft == arena.tournament.matches_total - arena.tournament.matches_completed

\* C33: match progress.  matches_completed never exceeds matches_total.  In
\* a Running tournament the operator's run_matches succeeds and advances
\* matches_completed by exactly min(5, matches_total - matches_completed);
\* every entry has played exactly the matches among the indices
\* 0..matches_completed-1 that drew its slot against a slot with a player,
\* each index counted once; and from matches_completed = 0,
\* ceil(matches_total / 5) calls reach matches_completed = matches_total,
\* where finalize_tournament is not rejected with MatchesIncomplete.
C33_MatchProgress ==
    (arena.at = "Live" /\ arena.tournament.exists)
        => /\ arena.tournament.matches_completed <= arena.tournament.matches_total
           /\ InState("Running")
                  => /\ RunResult.err = "Ok"
                     /\ RunResult.st.tournament.matches_completed
                            = arena.tournament.matches_completed
                                + Min(MATCHES_PER_TX, MatchesLeft)
                     /\ \A p \in EntryKeys :
                            arena.entries[p].exists
                                => arena.entries[p].matches_played
                                       = PlayedBy(arena.entries[p].index,
                                                  arena.tournament.matches_completed)
           /\ (InState("Running") /\ arena.tournament.matches_completed = 0)
                  => Bind(run_matches_calls(arena,
                              div_ceil(arena.tournament.matches_total, MATCHES_PER_TX)),
                          LAMBDA r :
                              /\ r.err = "Ok"
                              /\ r.st.tournament.matches_completed
                                     = r.st.tournament.matches_total
                              /\ finalize_tournament(r.st, r.st.config.operator).err
                                     # "MatchesIncomplete")

\* a Running field whose last batch was shorter than MATCHES_PER_TX: six
\* matches, all run, every player left having played
C33_Witness ==
    /\ InState("Running")
    /\ arena.tournament.matches_total = 6
    /\ arena.tournament.matches_completed = 6
    /\ \E p \in EntryKeys : arena.entries[p].exists /\ arena.entries[p].matches_played = 3


\* the slots of the tournament that have a player
PlayerSlots == {i \in 1..Len(arena.tournament.players) :
                   arena.tournament.players[i] # DefaultPubkey}

\* the slots with a player that scored at least `score`
ScoredAtLeast(score) == {i \in PlayerSlots : arena.tournament.scores[i] >= score}

\* participant_count - forfeits
ActivePlayers == arena.tournament.participant_count - arena.tournament.forfeits

\* C35: winner selection.  In every Payout state, which finalize_tournament
\* has left: with participant_count - forfeits >= 1, min_winning_score is
\* the ceil(active / 4)-th highest score among the slots with a player (the
\* score of such a slot, with fewer than ceil(active / 4) slots above it and
\* at least that many at or above it), winner_count is the number of slots
\* with a player whose score is at least min_winning_score, and winner_count
\* >= max(1, ceil(active / 4)); with participant_count - forfeits = 0,
\* winner_count = winner_pool = 0.
C35_WinnerSelection ==
    InState("Payout")
        => /\ ActivePlayers >= 1
                  => /\ \E i \in PlayerSlots :
                            arena.tournament.scores[i] = arena.tournament.min_winning_score
                     /\ Cardinality(ScoredAtLeast(arena.tournament.min_winning_score + 1))
                            < div_ceil(ActivePlayers, 4)
                     /\ Cardinality(ScoredAtLeast(arena.tournament.min_winning_score))
                            >= div_ceil(ActivePlayers, 4)
                     /\ arena.tournament.winner_count
                            = Cardinality(ScoredAtLeast(arena.tournament.min_winning_score))
                     /\ arena.tournament.winner_count >= 1
                     /\ arena.tournament.winner_count >= div_ceil(ActivePlayers, 4)
           /\ ActivePlayers = 0
                  => /\ arena.tournament.winner_count = 0
                     /\ arena.tournament.winner_pool = 0

\* a finalized field of six whose second highest score is the threshold and
\* is above the scores of the other four
C35_Witness ==
    /\ InState("Payout")
    /\ ActivePlayers = 6
    /\ arena.tournament.matches_completed = 15
    /\ arena.tournament.winner_count = 2
    /\ arena.tournament.min_winning_score > 0
    /\ Cardinality(PlayerSlots) = 6

\* a finalized field of two with the scores tied: two winners for a target
\* of one
TiedWinners ==
    /\ InState("Payout")
    /\ ActivePlayers = 2
    /\ arena.tournament.min_winning_score > 0
    /\ arena.tournament.winner_count = 2

\* a finalized field without players
EmptyFinalized == InState("Payout") /\ ActivePlayers = 0


(***************************************************************************)
(* The order of evaluation inside a round of run_match (SpecMatch).        *)
(***************************************************************************)
\* a step of the loop of run_match: round game.round is played
RoundPlayed == game.at = "Rounds" /\ game'.at = "Rounds" /\ game'.round = game.round + 1

\* the histories hold the moves of the rounds played so far, in order
HistoriesOfRounds(g) ==
    /\ Len(g.history_a) = g.round
    /\ Len(g.history_b) = g.round
    /\ Len(g.rounds) = g.round
    /\ \A i \in 1..g.round :
           /\ g.rounds[i].round = i - 1
           /\ g.history_a[i] = g.rounds[i].move_a
           /\ g.history_b[i] = g.rounds[i].move_b

\* C40: moves are simultaneous.  When round r of run_match is played, both
\* histories have length exactly r and hold the moves of rounds 0..r-1 in
\* order; the move of each player in round r is what its strategy returns on
\* those two histories, without the opponent's move of round r; and only
\* then is each history extended by the move of its player.
C40_SimultaneousMoves ==
    [][RoundPlayed
        => /\ HistoriesOfRounds(game)
           /\ game'.rounds[game.round + 1].move_a
                  = execute_player_strategy(game.strategy_a, game.history_b,
                                            game.history_a, game.round,
                                            for_round(game.rng, game.round * 2)).move
           /\ game'.rounds[game.round + 1].move_b
                  = execute_player_strategy(game.strategy_b, game.history_a,
                                            game.history_b, game.round,
                                            for_round(game.rng, game.round * 2 + 1)).move
           /\ game'.history_a
                  = Append(game.history_a, game'.rounds[game.round + 1].move_a)
           /\ game'.history_b
                  = Append(game.history_b, game'.rounds[game.round + 1].move_b)
           /\ HistoriesOfRounds(game')]_vars

\* a returned match in which TitForTat, as player B, answers the previous
\* move of A in a round where A plays the other move
C40_Witness ==
    /\ game.at = "Done"
    /\ game.strategy_b = Builtin(Strategy_new("TitForTat"))
    /\ HistoriesOfRounds(game)
    /\ \E i \in 2..game.round :
           /\ game.rounds[i].move_b = game.rounds[i - 1].move_a
           /\ game.rounds[i].move_b # game.rounds[i].move_a

====
